---- MODULE Spec2Model ----
(***************************************************************************)
(* The checks model of polygerrit-ui (models/checks/checks-model.ts):      *)
(* the state store (ChecksState behind privateState$), the derived run     *)
(* data computed by updateStateSetResults, and the fetch pipelines that    *)
(* register() sets up with initFetchingOfData().                           *)
(*                                                                         *)
(* Conventions.  An optional value (a field that may be undefined) is the  *)
(* empty set when undefined and the singleton {v} when it is v.  A record  *)
(* built by object spread is a TLA+ record whose domain is the set of keys *)
(* the JavaScript object has, so {...undefined, loading: true} is the      *)
(* record with the single field loading.                                   *)
(***************************************************************************)
EXTENDS Integers, Sequences, FiniteSets, TLC

VARIABLES
    state,      \* privateState$.getValue(): the current ChecksState snapshot
    providers,  \* keys of this.providers (and of this.reloadSubjects), in
                \* the order of their registration
    pipes,      \* one fetch pipeline per (plugin, patchset context)
    fetches,    \* promises returned by provider.fetch() that are unresolved
    env,        \* change$, changeNum$, latestPatchNum$, document.visibilityState
    clock,      \* number of emissions of the pipelines' sources so far
    lastOp,     \* history: the operation of the last step and what it published
    input,      \* the arguments drawn for the calls of SpecAttempts and SpecUpdate
    promises,   \* promises returned by action callbacks that are unresolved
    effects,    \* calls of action callbacks and events fired on the document
    heap,       \* the objects the snapshots are made of (SpecSnapshots)
    finalized   \* finalize() was called (SpecFinalize)

vars == <<state, providers, pipes, fetches, env, clock, lastOp, input, promises,
          effects, heap, finalized>>

----------------------------------------------------------------------------
(* Bounds of the model *)

MaxRuns     == 3   \* longest list of runs given to setResults (SpecAttempts)
MaxAttempt  == 2   \* attempt numbers are 1..MaxAttempt, or undefined
MaxEvents   == 2   \* emissions of the pipelines' sources in one behaviour
MaxUpdRuns  == 2   \* longest list of LATEST runs when updateResult runs
MaxActionCalls == 1   \* action callbacks invoked in one behaviour
MaxHeap     == 14  \* objects allocated in one behaviour (SpecSnapshots)
MaxTriggers == 3   \* poll ticks in one behaviour (SpecPipelines)

----------------------------------------------------------------------------
(* Values *)

None == {}
Some(v) == {v}
IsDefined(o) == o # None
TheValue(o) == CHOOSE v \in o : TRUE

LATEST == "LATEST"
SELECTED == "SELECTED"
ChecksPatchset == {LATEST, SELECTED}

Plugins == {"ci", "lint"}
CheckNameSet == {"build", "test"}

\* {...base, ...upd}: the keys of both, upd winning.
Spread(base, upd) ==
    [k \in (DOMAIN base) \cup (DOMAIN upd) |->
        IF k \in DOMAIN upd THEN upd[k] ELSE base[k]]

\* obj.key for a key the object may lack: undefined then.
Field(obj, key) == IF key \in DOMAIN obj THEN obj[key] ELSE None

\* map[key] of an object used as a map: undefined (spread as {}) when absent.
Entry(map, key) == IF key \in DOMAIN map THEN map[key] ELSE <<>>

\* map with map[key] = value, the other keys kept.
PutEntry(map, key, value) ==
    [k \in (DOMAIN map) \cup {key} |-> IF k = key THEN value ELSE map[k]]

----------------------------------------------------------------------------
(* checks-util: createAttemptMap (the attempt aggregator) *)

MaxOf(S) == CHOOSE m \in S : \A x \in S : x <= m

IndicesOf(runs, checkName) ==
    {i \in DOMAIN runs : runs[i].checkName = checkName}

\* The runs of one check name, in input order.
GroupOf(runs, checkName) ==
    SelectSeq(runs, LAMBDA r : r.checkName = checkName)

\* One AttemptDetail per run; the icon of the detail is display data and is
\* left out.
AttemptDetailOf(run) == [attempt |-> run.attempt]

MapSeq(s, Op(_)) == [i \in DOMAIN s |-> Op(s[i])]

AttemptNumbers(runs, checkName) ==
    UNION {runs[i].attempt : i \in IndicesOf(runs, checkName)}

createAttemptMap(runs) ==
    [name \in {runs[i].checkName : i \in DOMAIN runs} |->
        [attempts |-> MapSeq(GroupOf(runs, name), AttemptDetailOf),
         latestAttempt |->
            IF AttemptNumbers(runs, name) = {}
            THEN None
            ELSE Some(MaxOf(AttemptNumbers(runs, name))),
         isSingleAttempt |-> Cardinality(IndicesOf(runs, name)) = 1]]

----------------------------------------------------------------------------
(* updateStateSetResults: the sort of the attempts and the derived run *)

\* a.attempt ?? -1
AttemptKey(detail) ==
    IF IsDefined(detail.attempt) THEN TheValue(detail.attempt) ELSE -1

RECURSIVE InsertSorted(_, _)
InsertSorted(sorted, d) ==
    IF sorted = <<>> THEN <<d>>
    ELSE IF AttemptKey(d) < AttemptKey(sorted[Len(sorted)])
         THEN Append(InsertSorted(SubSeq(sorted, 1, Len(sorted) - 1), d),
                     sorted[Len(sorted)])
         ELSE Append(sorted, d)

\* Mutant: the attempts are left in the order of the runs.
SortAttemptsSkipped(attempts) == attempts

\* Array.prototype.sort with the comparator (a.attempt ?? -1) - (b.attempt ?? -1);
\* the sort is stable.
RECURSIVE SortAttempts(_)
SortAttempts(attempts) ==
    IF attempts = <<>> THEN <<>>
    ELSE InsertSorted(SortAttempts(SubSeq(attempts, 1, Len(attempts) - 1)),
                      attempts[Len(attempts)])

SortedAttemptMap(runs) ==
    LET m == createAttemptMap(runs) IN
    [name \in DOMAIN m |->
        [m[name] EXCEPT !.attempts = SortAttempts(m[name].attempts)]]

\* `${run.checkName}-${run.change}-${run.patchset}-${run.attempt}`
RunId(run) == <<run.checkName, run.change, run.patchset, run.attempt>>

\* `${runId}-${i}` with the 0-based index of Array.prototype.map
ResultId(runId, i) == Append(runId, Some(i - 1))

DeriveResults(run) ==
    LET results == IF "results" \in DOMAIN run THEN run.results ELSE <<>> IN
    [i \in DOMAIN results |->
        Spread(results[i], [internalResultId |-> ResultId(RunId(run), i)])]

\* The derived run with isLatestAttempt and isSingleAttempt given.
DerivedRun(run, pluginName, attemptMap, isLatest, isSingle) ==
    Spread(run,
        [pluginName |-> pluginName,
         internalRunId |-> RunId(run),
         isLatestAttempt |-> isLatest,
         isSingleAttempt |-> isSingle,
         attemptDetails |-> attemptMap[run.checkName].attempts,
         results |-> DeriveResults(run)])

\* Mutant: isLatestAttempt: attemptInfo.latestAttempt !== undefined
DeriveRunLatestWhenNumbered(run, pluginName, attemptMap) ==
    DerivedRun(run, pluginName, attemptMap,
               IsDefined(attemptMap[run.checkName].latestAttempt),
               attemptMap[run.checkName].isSingleAttempt)

\* Mutant: isLatestAttempt: attemptInfo.isSingleAttempt
DeriveRunLatestIffSingle(run, pluginName, attemptMap) ==
    DerivedRun(run, pluginName, attemptMap,
               attemptMap[run.checkName].isSingleAttempt,
               attemptMap[run.checkName].isSingleAttempt)

\* Mutant: isLatestAttempt: !!run.attempt && latestAttempt === run.attempt
DeriveRunLatestNeedsNumber(run, pluginName, attemptMap) ==
    DerivedRun(run, pluginName, attemptMap,
               /\ IsDefined(run.attempt)
               /\ attemptMap[run.checkName].latestAttempt = run.attempt,
               attemptMap[run.checkName].isSingleAttempt)

\* Mutant: isSingleAttempt: attemptInfo.latestAttempt === run.attempt
DeriveRunSingleIffLatest(run, pluginName, attemptMap) ==
    DerivedRun(run, pluginName, attemptMap,
               attemptMap[run.checkName].latestAttempt = run.attempt,
               attemptMap[run.checkName].latestAttempt = run.attempt)

\* The callback of runs.map(...) in updateStateSetResults.
DeriveRun(run, pluginName, attemptMap) ==
    LET attemptInfo == attemptMap[run.checkName] IN
    Spread(run,
        [pluginName |-> pluginName,
         internalRunId |-> RunId(run),
         isLatestAttempt |-> attemptInfo.latestAttempt = run.attempt,
         isSingleAttempt |-> attemptInfo.isSingleAttempt,
         attemptDetails |-> attemptInfo.attempts,
         results |-> DeriveResults(run)])

----------------------------------------------------------------------------
(* The state store *)

InitialChecksState ==
    [patchsetNumberSelected |-> None,
     pluginStateLatest |-> <<>>,
     pluginStateSelected |-> <<>>]

\* The plugin map getPluginState() hands out for a patchset context.
getPluginState(st, patchset) ==
    IF patchset = LATEST THEN st.pluginStateLatest ELSE st.pluginStateSelected

\* The next state: st with the copied map of the context replaced by pluginState.
WithPluginState(st, patchset, pluginState) ==
    IF patchset = LATEST
    THEN [st EXCEPT !.pluginStateLatest = pluginState]
    ELSE [st EXCEPT !.pluginStateSelected = pluginState]

updateStateSetProvider(st, pluginName, patchset) ==
    WithPluginState(st, patchset,
        PutEntry(getPluginState(st, patchset), pluginName,
            [pluginName |-> pluginName,
             loading |-> FALSE,
             firstTimeLoad |-> TRUE,
             runs |-> <<>>,
             actions |-> <<>>,
             links |-> <<>>]))

\* Mutant: fetchResults without its call of updateStateSetLoading.
SetLoadingSkipped(st, pluginName, patchset) == st

\* Mutant: with "runs: []" as the error states have it.
SetLoadingClearingRuns(st, pluginName, patchset) ==
    LET pluginState == getPluginState(st, patchset) IN
    WithPluginState(st, patchset,
        PutEntry(pluginState, pluginName,
            Spread(Entry(pluginState, pluginName),
                [loading |-> TRUE, runs |-> <<>>])))

\* Mutant: with "firstTimeLoad: false" as the responses have it.
SetLoadingEndingFirstLoad(st, pluginName, patchset) ==
    LET pluginState == getPluginState(st, patchset) IN
    WithPluginState(st, patchset,
        PutEntry(pluginState, pluginName,
            Spread(Entry(pluginState, pluginName),
                [loading |-> TRUE, firstTimeLoad |-> FALSE])))

updateStateSetLoading(st, pluginName, patchset) ==
    LET pluginState == getPluginState(st, patchset) IN
    WithPluginState(st, patchset,
        PutEntry(pluginState, pluginName,
            Spread(Entry(pluginState, pluginName), [loading |-> TRUE])))

\* Mutant: without "loginCallback: undefined".
SetErrorKeepingLogin(st, pluginName, errorMessage, patchset) ==
    LET pluginState == getPluginState(st, patchset) IN
    WithPluginState(st, patchset,
        PutEntry(pluginState, pluginName,
            Spread(Entry(pluginState, pluginName),
                [loading |-> FALSE,
                 firstTimeLoad |-> FALSE,
                 errorMessage |-> Some(errorMessage),
                 runs |-> <<>>,
                 actions |-> <<>>])))

\* Mutant: with "links: []" as well.
SetErrorClearingLinks(st, pluginName, errorMessage, patchset) ==
    LET pluginState == getPluginState(st, patchset) IN
    WithPluginState(st, patchset,
        PutEntry(pluginState, pluginName,
            Spread(Entry(pluginState, pluginName),
                [loading |-> FALSE,
                 firstTimeLoad |-> FALSE,
                 errorMessage |-> Some(errorMessage),
                 loginCallback |-> None,
                 runs |-> <<>>,
                 actions |-> <<>>,
                 links |-> <<>>])))

updateStateSetError(st, pluginName, errorMessage, patchset) ==
    LET pluginState == getPluginState(st, patchset) IN
    WithPluginState(st, patchset,
        PutEntry(pluginState, pluginName,
            Spread(Entry(pluginState, pluginName),
                [loading |-> FALSE,
                 firstTimeLoad |-> FALSE,
                 errorMessage |-> Some(errorMessage),
                 loginCallback |-> None,
                 runs |-> <<>>,
                 actions |-> <<>>])))

updateStateSetNotLoggedIn(st, pluginName, loginCallback, patchset) ==
    LET pluginState == getPluginState(st, patchset) IN
    WithPluginState(st, patchset,
        PutEntry(pluginState, pluginName,
            Spread(Entry(pluginState, pluginName),
                [loading |-> FALSE,
                 firstTimeLoad |-> FALSE,
                 errorMessage |-> None,
                 loginCallback |-> Some(loginCallback),
                 runs |-> <<>>,
                 actions |-> <<>>])))

\* Mutant: the runs are added to the runs the provider state has.
SetResultsAppending(st, pluginName, runs, actions, links, patchset) ==
    LET attemptMap == SortedAttemptMap(runs)
        pluginState == getPluginState(st, patchset)
        old == Entry(pluginState, pluginName)
    IN
    WithPluginState(st, patchset,
        PutEntry(pluginState, pluginName,
            Spread(old,
                [loading |-> FALSE,
                 firstTimeLoad |-> FALSE,
                 errorMessage |-> None,
                 loginCallback |-> None,
                 runs |-> (IF "runs" \in DOMAIN old THEN old.runs ELSE <<>>)
                          \o [i \in DOMAIN runs |->
                                DeriveRun(runs[i], pluginName, attemptMap)],
                 actions |-> actions,
                 links |-> links])))

updateStateSetResults(st, pluginName, runs, actions, links, patchset) ==
    LET attemptMap == SortedAttemptMap(runs)
        pluginState == getPluginState(st, patchset)
    IN
    WithPluginState(st, patchset,
        PutEntry(pluginState, pluginName,
            Spread(Entry(pluginState, pluginName),
                [loading |-> FALSE,
                 firstTimeLoad |-> FALSE,
                 errorMessage |-> None,
                 loginCallback |-> None,
                 runs |-> [i \in DOMAIN runs |->
                              DeriveRun(runs[i], pluginName, attemptMap)],
                 actions |-> actions,
                 links |-> links])))

\* run.change !== updatedRun.change etc.: the four early returns of the map
\* callback in updateStateUpdateResult.
RunMatches(run, updatedRun) ==
    /\ run.change = updatedRun.change
    /\ run.patchset = updatedRun.patchset
    /\ run.attempt = updatedRun.attempt
    /\ run.checkName = updatedRun.checkName

\* A string option is truthy when it is defined and not the empty string.
Truthy(o) == IsDefined(o) /\ o # Some("")

\* Mutant: without the truthiness test of result.externalId.
ResultMatchesByEquality(result, updatedResult) ==
    Field(result, "externalId") = Field(updatedResult, "externalId")

\* result.externalId && result.externalId === updatedResult.externalId
ResultMatches(result, updatedResult) ==
    /\ Truthy(Field(result, "externalId"))
    /\ Field(result, "externalId") = Field(updatedResult, "externalId")

\* Mutant: the updated result stored as it came, without internalResultId.
ReplaceResultWithoutId(result, updatedResult) == updatedResult

\* {...updatedResult, internalResultId: result.internalResultId}
ReplaceResult(result, updatedResult) ==
    Spread(updatedResult, [internalResultId |-> result.internalResultId])

RunHasMatch(run, updatedRun, updatedResult) ==
    /\ RunMatches(run, updatedRun)
    /\ \E i \in DOMAIN run.results : ResultMatches(run.results[i], updatedResult)

\* The callback of pluginState[pluginName].runs.map(...).
UpdateRun(run, updatedRun, updatedResult) ==
    IF RunHasMatch(run, updatedRun, updatedResult)
    THEN [run EXCEPT !.results =
            [i \in DOMAIN run.results |->
                IF ResultMatches(run.results[i], updatedResult)
                THEN ReplaceResult(run.results[i], updatedResult)
                ELSE run.results[i]]]
    ELSE run

\* pluginState[pluginName].runs.map throws a TypeError when the plugin has no
\* entry, or an entry without runs.
UpdateResultThrows(st, pluginName, patchset) ==
    \/ pluginName \notin DOMAIN getPluginState(st, patchset)
    \/ "runs" \notin DOMAIN getPluginState(st, patchset)[pluginName]

\* runUpdated at the end of the map.
RunUpdated(st, pluginName, updatedRun, updatedResult, patchset) ==
    /\ ~UpdateResultThrows(st, pluginName, patchset)
    /\ \E i \in DOMAIN getPluginState(st, patchset)[pluginName].runs :
          RunHasMatch(getPluginState(st, patchset)[pluginName].runs[i],
                      updatedRun, updatedResult)

\* Mutant: without the early return "if (!runUpdated) return".
UpdateResultNoEarlyReturn(st, pluginName, updatedRun, updatedResult, patchset) ==
    LET pluginState == getPluginState(st, patchset) IN
    IF UpdateResultThrows(st, pluginName, patchset)
    THEN [state |-> st, published |-> FALSE]
    ELSE [state |-> WithPluginState(st, patchset,
                       PutEntry(pluginState, pluginName,
                           Spread(pluginState[pluginName],
                               [runs |-> [i \in DOMAIN pluginState[pluginName].runs |->
                                   UpdateRun(pluginState[pluginName].runs[i],
                                             updatedRun, updatedResult)]]))),
          published |-> TRUE]

\* The state after updateStateUpdateResult and whether it called
\* privateState$.next().
updateStateUpdateResult(st, pluginName, updatedRun, updatedResult, patchset) ==
    LET pluginState == getPluginState(st, patchset) IN
    IF ~RunUpdated(st, pluginName, updatedRun, updatedResult, patchset)
    THEN [state |-> st, published |-> FALSE]
    ELSE [state |-> WithPluginState(st, patchset,
                       PutEntry(pluginState, pluginName,
                           Spread(pluginState[pluginName],
                               [runs |-> [i \in DOMAIN pluginState[pluginName].runs |->
                                   UpdateRun(pluginState[pluginName].runs[i],
                                             updatedRun, updatedResult)]]))),
          published |-> TRUE]

updateStateSetPatchset(st, patchsetNumber) ==
    [st EXCEPT !.patchsetNumberSelected = patchsetNumber]

\* A number option is truthy when it is defined and not 0.
TruthyNumber(o) == IsDefined(o) /\ o # Some(0)

\* The projection of checksSelected$: state.patchsetNumberSelected ? ... : ...
checksSelected(st) ==
    IF TruthyNumber(st.patchsetNumberSelected)
    THEN st.pluginStateSelected
    ELSE st.pluginStateLatest

----------------------------------------------------------------------------
(* The objects of a snapshot.  A ChecksState object refers to its two     *)
(* plugin maps and a plugin map refers to its entries; heap.objs[id] is   *)
(* the object with the reference id, heap.root the object the             *)
(* BehaviorSubject privateState$ holds.                                   *)

\* The initial value of privateState$ (231-234).
InitialHeap ==
    [objs |-> << <<>>, <<>>,
                 [patchsetNumberSelected |-> None,
                  pluginStateLatest |-> 1,
                  pluginStateSelected |-> 2] >>,
     root |-> 3]

\* A new object: the heap with it, and its reference.
Alloc(h, obj) == [heap |-> [h EXCEPT !.objs = Append(h.objs, obj)],
                  ref |-> Len(h.objs) + 1]

\* The key of a ChecksState object that holds the map of a context.
MapKey(patchset) ==
    IF patchset = LATEST THEN "pluginStateLatest" ELSE "pluginStateSelected"

\* Mutant: the map of the context is handed out without being copied.
getPluginStateShared(h, stateRef, patchset) ==
    [heap |-> h, ref |-> h.objs[stateRef][MapKey(patchset)]]

\* getPluginState(state, patchset): the map of the context is copied, the
\* state object is made to refer to the copy, and the copy is returned.
getPluginStateCopy(h, stateRef, patchset) ==
    LET copy == Alloc(h, h.objs[h.objs[stateRef][MapKey(patchset)]]) IN
    [heap |-> [copy.heap EXCEPT !.objs[stateRef][MapKey(patchset)] = copy.ref],
     ref |-> copy.ref]

\* const nextState = {...this.privateState$.getValue()}
CopyState(h) == Alloc(h, h.objs[h.root])

\* The five writes of an entry: the state is copied, the map of the context
\* is taken from getPluginState, pluginState[pluginName] is assigned a new
\* object and the copied state is published.
HeapSetEntry(h, pluginName, patchset, entry) ==
    LET nextState == CopyState(h)
        pluginState == getPluginStateCopy(nextState.heap, nextState.ref, patchset)
        object == Alloc(pluginState.heap, entry)
    IN
    [object.heap EXCEPT
        !.objs[pluginState.ref] =
            PutEntry(object.heap.objs[pluginState.ref], pluginName, object.ref),
        !.root = nextState.ref]

\* updateStateSetPatchset: the copied state with the number, published.
HeapSetPatchset(h, patchsetNumber) ==
    LET nextState == CopyState(h) IN
    [nextState.heap EXCEPT
        !.objs[nextState.ref].patchsetNumberSelected = patchsetNumber,
        !.root = nextState.ref]

\* The value of the plugin map with the reference ref.
MapValue(h, ref) == [p \in DOMAIN h.objs[ref] |-> h.objs[h.objs[ref][p]]]

\* The value of the ChecksState object with the reference ref.
SnapshotValue(h, ref) ==
    [patchsetNumberSelected |-> h.objs[ref].patchsetNumberSelected,
     pluginStateLatest |-> MapValue(h, h.objs[ref].pluginStateLatest),
     pluginStateSelected |-> MapValue(h, h.objs[ref].pluginStateSelected)]

----------------------------------------------------------------------------
(* Construction and registration *)

\* A pipeline of initFetchingOfData:
\*   subscribed  the pipeline exists (register() has subscribed it)
\*   armed       combineLatest has a value of each of its five sources, the
\*               last of them being the first tick of timer(0, pollIntervalMs)
\*   dead        catchError has ended the pipeline
\*   throttled   throttleTime(1000) is inside its 1000 ms window
\*   sub         the emission whose fetch switchMap is subscribed to, 0 if none
\*   trig        the emission switchMap processed last, 0 if none
\* An emission is named by its number: clock when it happens.
NoPipe ==
    [subscribed |-> FALSE, armed |-> FALSE, dead |-> FALSE,
     throttled |-> FALSE, sub |-> 0, trig |-> 0]

PipeKeys == Plugins \X ChecksPatchset

\* The signals the model subscribes to, each with the value it emitted last,
\* and document.visibilityState.
InitialEnv ==
    [changeNum |-> None, latestPatchNum |-> None, routerPatchNum |-> None,
     change |-> None, visible |-> TRUE]

\* this.providers[pluginName] is set.
Registered(pluginName) ==
    \E i \in DOMAIN providers : providers[i] = pluginName

\* The model after its constructor has run, no signal having a value yet.
Constructed ==
    /\ state = InitialChecksState
    /\ providers = <<>>
    /\ pipes = [k \in PipeKeys |-> NoPipe]
    /\ fetches = {}
    /\ env = InitialEnv
    /\ clock = 0
    /\ lastOp = [op |-> "constructor", pubs |-> <<>>]
    /\ promises = {}
    /\ effects = <<>>
    /\ heap = InitialHeap
    /\ finalized = FALSE


\* A pipeline right after its subscription: the BehaviorSubject of the reload
\* subject has emitted its initial value through throttleTime.
NewPipe == [NoPipe EXCEPT !.subscribed = TRUE, !.throttled = TRUE]

\* Mutant: register without the test of this.providers[pluginName].
AlreadyRegisteredNever(provs, pluginName) == FALSE

\* if (this.providers[pluginName]) of register
AlreadyRegistered(provs, pluginName) ==
    \E i \in DOMAIN provs : provs[i] = pluginName

\* register(pluginName, provider, config)
Register(pluginName) ==
    /\ pluginName \in Plugins
    /\ IF AlreadyRegistered(providers, pluginName)
       THEN /\ UNCHANGED <<state, providers, pipes>>
            /\ lastOp' = [op |-> "registerIgnored", plugin |-> pluginName,
                          pubs |-> <<>>]
       ELSE /\ providers' = Append(providers, pluginName)
            /\ state' = updateStateSetProvider(
                            updateStateSetProvider(state, pluginName, LATEST),
                            pluginName, SELECTED)
            /\ pipes' = [k \in PipeKeys |->
                            IF k[1] = pluginName THEN NewPipe ELSE pipes[k]]
            /\ lastOp' = [op |-> "register", plugin |-> pluginName,
                          pubs |-> <<LATEST, SELECTED>>]
    /\ UNCHANGED <<fetches, env, clock, input, promises, effects, heap, finalized>>

----------------------------------------------------------------------------
(* The state store operations called from outside the pipelines.  The      *)
(* callers pass a registered plugin.                                       *)

StoreSetLoading(pluginName, patchset) ==
    /\ Registered(pluginName)
    /\ state' = updateStateSetLoading(state, pluginName, patchset)
    /\ lastOp' = [op |-> "setLoading", plugin |-> pluginName,
                  patchset |-> patchset, pubs |-> <<patchset>>]
    /\ UNCHANGED <<providers, pipes, fetches, env, clock, input, promises, effects, heap, finalized>>

StoreSetError(pluginName, errorMessage, patchset) ==
    /\ Registered(pluginName)
    /\ state' = updateStateSetError(state, pluginName, errorMessage, patchset)
    /\ lastOp' = [op |-> "setError", plugin |-> pluginName,
                  patchset |-> patchset, errorMessage |-> errorMessage,
                  before |-> Entry(getPluginState(state, patchset), pluginName),
                  pubs |-> <<patchset>>]
    /\ UNCHANGED <<providers, pipes, fetches, env, clock, input, promises, effects, heap, finalized>>

StoreSetNotLoggedIn(pluginName, loginCallback, patchset) ==
    /\ Registered(pluginName)
    /\ state' = updateStateSetNotLoggedIn(state, pluginName, loginCallback,
                                          patchset)
    /\ lastOp' = [op |-> "setNotLoggedIn", plugin |-> pluginName,
                  patchset |-> patchset, loginCallback |-> loginCallback,
                  before |-> Entry(getPluginState(state, patchset), pluginName),
                  pubs |-> <<patchset>>]
    /\ UNCHANGED <<providers, pipes, fetches, env, clock, input, promises, effects, heap, finalized>>

StoreSetResults(pluginName, runs, actions, links, patchset) ==
    /\ Registered(pluginName)
    /\ state' = updateStateSetResults(state, pluginName, runs, actions, links,
                                      patchset)
    /\ lastOp' = [op |-> "setResults", plugin |-> pluginName,
                  patchset |-> patchset, runs |-> runs, actions |-> actions,
                  links |-> links, pubs |-> <<patchset>>]
    /\ UNCHANGED <<providers, pipes, fetches, env, clock, input, promises, effects, heap, finalized>>

\* updateResult(pluginName, run, result): LATEST first, then SELECTED.
UpdateResult(pluginName, run, result) ==
    LET first == updateStateUpdateResult(state, pluginName, run, result, LATEST)
        second == updateStateUpdateResult(first.state, pluginName, run, result,
                                          SELECTED)
    IN
    /\ Registered(pluginName)
    /\ state' = second.state
    /\ lastOp' = [op |-> "updateResult", plugin |-> pluginName,
                  run |-> run, result |-> result,
                  pubs |-> (IF first.published THEN <<LATEST>> ELSE <<>>)
                           \o (IF second.published THEN <<SELECTED>> ELSE <<>>)]
    /\ UNCHANGED <<providers, pipes, fetches, env, clock, input, promises, effects, heap, finalized>>

----------------------------------------------------------------------------
(* Inputs *)

SeqsUpTo(S, n) == UNION {[1..k -> S] : k \in 0..n}

Attempts == {None} \cup {Some(a) : a \in 1..MaxAttempt}

\* Runs as a provider returns them (CheckRunApi), without results.
AttemptRuns ==
    [checkName : CheckNameSet, change : {1}, patchset : {1}, attempt : Attempts]

AttemptRunLists == SeqsUpTo(AttemptRuns, MaxRuns)

----------------------------------------------------------------------------
(* SpecAttempts: setResults over every list of runs of up to MaxRuns runs  *)

InitAttempts == Constructed /\ input \in AttemptRunLists

AttemptsRegister == Register("ci")

AttemptsSetResults ==
    \E patchset \in ChecksPatchset :
        StoreSetResults("ci", input, <<>>, <<>>, patchset)

NextAttempts == AttemptsRegister \/ AttemptsSetResults

SpecAttempts == InitAttempts /\ [][NextAttempts]_vars

\* The runs given to the last setResults and the runs it stored.
InputRuns == lastOp.runs
StoredRuns == getPluginState(state, lastOp.patchset)[lastOp.plugin].runs
AfterSetResults == lastOp.op = "setResults"

InputGroup(i) == {j \in DOMAIN InputRuns :
                     InputRuns[j].checkName = InputRuns[i].checkName}
LatestInGroup(i) == {j \in InputGroup(i) : StoredRuns[j].isLatestAttempt}
NumbersInGroup(i) == UNION {InputRuns[j].attempt : j \in InputGroup(i)}


C6_SingleAttemptIffAlone ==
    AfterSetResults =>
        /\ Len(StoredRuns) = Len(InputRuns)
        /\ \A i \in DOMAIN InputRuns :
              /\ StoredRuns[i].checkName = InputRuns[i].checkName
              /\ StoredRuns[i].isSingleAttempt <=> (InputGroup(i) = {i})

C6_Witness ==
    /\ AfterSetResults
    /\ \E i, j \in DOMAIN InputRuns :
          /\ StoredRuns[i].isSingleAttempt
          /\ InputRuns[i].attempt = None
          /\ ~StoredRuns[j].isSingleAttempt
          /\ StoredRuns[j].isLatestAttempt

\* The number of details of the list with the attempt a.
DetailsWith(details, a) ==
    Cardinality({x \in DOMAIN details : details[x].attempt = a})

\* C28: after setResults the attemptDetails of every run list the attempts
\* of all runs of its check name, one detail per run, in ascending order of
\* the attempt number, a detail without attempt number before the numbered
\* ones.
C28_AttemptDetailsSorted ==
    AfterSetResults =>
        \A i \in DOMAIN InputRuns :
            LET details == StoredRuns[i].attemptDetails IN
            /\ Len(details) = Cardinality(InputGroup(i))
            /\ \A a \in Attempts :
                  DetailsWith(details, a)
                     = Cardinality({j \in InputGroup(i) :
                                       InputRuns[j].attempt = a})
            /\ \A x, y \in DOMAIN details :
                  (x < y /\ IsDefined(details[x].attempt))
                  => /\ IsDefined(details[y].attempt)
                     /\ TheValue(details[x].attempt)
                           <= TheValue(details[y].attempt)

\* Three runs of one check given as attempt 2, no attempt, attempt 1.
C28_Witness ==
    /\ AfterSetResults
    /\ Len(InputRuns) = 3
    /\ InputRuns[1].attempt = Some(2)
    /\ InputRuns[2].attempt = None
    /\ InputRuns[3].attempt = Some(1)
    /\ InputGroup(1) = {1, 2, 3}
    /\ StoredRuns[1].attemptDetails
          = <<[attempt |-> None], [attempt |-> Some(1)], [attempt |-> Some(2)]>>

----------------------------------------------------------------------------
(* SpecUpdate: updateResult on a store whose two contexts hold runs with   *)
(* results, over every update of a run key and a result                    *)

ExternalIds == {"e1", "e2"}

StoredResult(externalId) == [externalId |-> externalId, message |-> "old"]

\* A result without the externalId key, as a provider returns it.
AnonymousResult == [message |-> "old"]

UpdResultLists ==
    {<<>>,
     <<StoredResult(Some("e1"))>>,
     <<StoredResult(Some("e1")), StoredResult(Some("e2"))>>,
     <<AnonymousResult, StoredResult(Some("e1"))>>}

\* The runs differ in their attempt; change, patchset and check name match.
UpdRuns ==
    [checkName : {"build"}, change : {1}, patchset : {1},
     attempt : {None, Some(1)}, results : UpdResultLists]

UpdRunLists == SeqsUpTo(UpdRuns, MaxUpdRuns)
\* The SELECTED context holds no run or one run.
UpdSelectedRunLists == {<<>>} \cup {<<run>> : run \in UpdRuns}

\* The run and the result an update names.
UpdatedRuns ==
    [checkName : {"build"}, change : {1}, patchset : {1},
     attempt : {None, Some(1)}]

UpdatedResults ==
    [externalId : {Some(e) : e \in ExternalIds}, message : {"new"}]
        \cup {[message |-> "new"]}

InitUpdate ==
    /\ Constructed
    /\ input \in [latest : UpdRunLists, selected : UpdSelectedRunLists]

UpdateRegister == Register("ci")

UpdateSetResultsLatest ==
    /\ Registered("ci")
    /\ getPluginState(state, LATEST)["ci"].firstTimeLoad
    /\ StoreSetResults("ci", input.latest, <<>>, <<>>, LATEST)

UpdateSetResultsSelected ==
    /\ Registered("ci")
    /\ ~getPluginState(state, LATEST)["ci"].firstTimeLoad
    /\ getPluginState(state, SELECTED)["ci"].firstTimeLoad
    /\ StoreSetResults("ci", input.selected, <<>>, <<>>, SELECTED)

UpdateUpdateResult ==
    \E run \in UpdatedRuns, result \in UpdatedResults :
        /\ Registered("ci")
        /\ ~getPluginState(state, SELECTED)["ci"].firstTimeLoad
        /\ UpdateResult("ci", run, result)

NextUpdate ==
    \/ UpdateRegister
    \/ UpdateSetResultsLatest
    \/ UpdateSetResultsSelected
    \/ UpdateUpdateResult

SpecUpdate == InitUpdate /\ [][NextUpdate]_vars

\* The stored results an update names: a run with the change, patchset,
\* attempt and check name of the updated run, holding a result whose
\* externalId is the externalId of the updated result.
NamedResults(st, pluginName, patchset, run, result) ==
    LET runs == getPluginState(st, patchset)[pluginName].runs IN
    UNION {{<<i, k>> : k \in {k \in DOMAIN runs[i].results :
                /\ runs[i].change = run.change
                /\ runs[i].patchset = run.patchset
                /\ runs[i].attempt = run.attempt
                /\ runs[i].checkName = run.checkName
                /\ "externalId" \in DOMAIN result
                /\ "externalId" \in DOMAIN runs[i].results[k]
                /\ runs[i].results[k].externalId = result.externalId}} :
           i \in DOMAIN runs}

\* C9: an updateResult that finds, in a context, no run matching (change,
\* patchset, attempt, checkName) with a result of the same externalId
\* publishes no snapshot for that context and leaves the state of that
\* context as it was.
C9_Step(c) ==
    (/\ lastOp'.op = "updateResult"
     /\ NamedResults(state, lastOp'.plugin, c, lastOp'.run, lastOp'.result) = {})
    => /\ getPluginState(state', c) = getPluginState(state, c)
       /\ \A n \in DOMAIN lastOp'.pubs : lastOp'.pubs[n] # c

C9_NoMatchNoPublish ==
    [][\A c \in ChecksPatchset : C9_Step(c)]_vars

\* An update that matched in SELECTED alone, LATEST holding a run with results.
C9_Witness ==
    /\ lastOp.op = "updateResult"
    /\ lastOp.pubs = <<SELECTED>>
    /\ \E i \in DOMAIN getPluginState(state, LATEST)["ci"].runs :
          Len(getPluginState(state, LATEST)["ci"].runs[i].results) = 2

\* C10: an updateResult with a match replaces, in each context, only the
\* results it names; a replaced result is the updated result with the
\* internalResultId of the result it replaces; every other result, every
\* other run and every other field of the provider state are unchanged.
C10_Step(c) ==
    LET p == lastOp'.plugin
        named == NamedResults(state, p, c, lastOp'.run, lastOp'.result)
        old == getPluginState(state, c)[p]
        new == getPluginState(state', c)[p]
    IN
    (lastOp'.op = "updateResult" /\ named # {})
    => /\ \E n \in DOMAIN lastOp'.pubs : lastOp'.pubs[n] = c
       /\ DOMAIN new = DOMAIN old
       /\ \A f \in DOMAIN old : f # "runs" => new[f] = old[f]
       /\ DOMAIN new.runs = DOMAIN old.runs
       /\ \A i \in DOMAIN old.runs :
             /\ DOMAIN new.runs[i] = DOMAIN old.runs[i]
             /\ \A f \in DOMAIN old.runs[i] :
                   f # "results" => new.runs[i][f] = old.runs[i][f]
             /\ DOMAIN new.runs[i].results = DOMAIN old.runs[i].results
             /\ \A k \in DOMAIN old.runs[i].results :
                   new.runs[i].results[k] =
                      IF <<i, k>> \in named
                      THEN Spread(lastOp'.result,
                              [internalResultId |->
                                  old.runs[i].results[k].internalResultId])
                      ELSE old.runs[i].results[k]

C10_MatchReplacesOnlyTheResult ==
    [][\A c \in ChecksPatchset : C10_Step(c)]_vars

\* An update that matched in LATEST alone and replaced one of the two results
\* of a run, next to a run it left alone.
C10_Witness ==
    /\ lastOp.op = "updateResult"
    /\ lastOp.pubs = <<LATEST>>
    /\ \E i, j \in DOMAIN getPluginState(state, LATEST)["ci"].runs :
          LET runs == getPluginState(state, LATEST)["ci"].runs IN
          /\ i # j
          /\ Len(runs[i].results) = 2
          /\ runs[i].results[1].message = "old"
          /\ runs[i].results[2].message = "new"
          /\ runs[i].results[2].internalResultId = ResultId(RunId(runs[i]), 2)
          /\ Len(runs[j].results) = 2
          /\ \A k \in 1..2 : runs[j].results[k].message = "old"

----------------------------------------------------------------------------
(* The fetch pipelines of initFetchingOfData *)

PatchNums == {1, 2}

\* The revisions of a change map a patchset number to its sha.
ShaOf(patchNum) == IF patchNum = 1 THEN "sha1" ELSE "sha2"

ChangeWith(patchNums) ==
    [number |-> 1, project |-> "repo",
     revisions |-> Some([n \in patchNums |-> ShaOf(n)])]

\* The change with the given number and patchsets.
ChangeOf(number, patchNums) ==
    [number |-> number, project |-> "repo",
     revisions |-> Some([n \in patchNums |-> ShaOf(n)])]

\* A change that came without its revisions.
ChangeWithoutRevisions == [number |-> 1, project |-> "repo", revisions |-> None]

\* The values of change$: no change, the change with its first patchset, the
\* change with both patchsets, the change without revisions.
Changes ==
    {None, Some(ChangeWith({1})), Some(ChangeWith({1, 2})),
     Some(ChangeWithoutRevisions)}

\* patch-set-util: getShaByPatchNum
getShaByPatchNum(revisions, patchNum) ==
    IF patchNum \in DOMAIN revisions THEN Some(revisions[patchNum]) ELSE None

\* empty()
empty == [responseCode |-> "OK", runs |-> <<>>]

\* createErrorResponse(pluginName, message); e is JSON.stringify(message).
createErrorResponse(pluginName, e) ==
    [responseCode |-> "ERROR",
     errorMessage |-> "Error message from plugin '" \o pluginName \o "': " \o e]

\* response.key ?? []
OrEmpty(response, key) ==
    IF key \in DOMAIN response THEN response[key] ELSE <<>>

\* Mutant: the OK case without "?? []" defaults passes the old lists on.
ApplyResponseOkKeepsAbsent(st, pluginName, patchset, response) ==
    LET old == Entry(getPluginState(st, patchset), pluginName) IN
    CASE response.responseCode = "ERROR" ->
            updateStateSetError(st, pluginName,
                IF "errorMessage" \in DOMAIN response
                THEN response.errorMessage ELSE "-", patchset)
      [] response.responseCode = "NOT_LOGGED_IN" ->
            updateStateSetNotLoggedIn(st, pluginName, response.loginCallback,
                                      patchset)
      [] response.responseCode = "OK" ->
            updateStateSetResults(st, pluginName,
                OrEmpty(response, "runs"),
                IF "actions" \in DOMAIN response
                THEN response.actions ELSE old.actions,
                IF "links" \in DOMAIN response
                THEN response.links ELSE old.links,
                patchset)

\* Mutant: the switch without its ERROR case.
ApplyResponseWithoutErrorCase(st, pluginName, patchset, response) ==
    CASE response.responseCode = "ERROR" -> st
      [] response.responseCode = "NOT_LOGGED_IN" ->
            updateStateSetNotLoggedIn(st, pluginName, response.loginCallback,
                                      patchset)
      [] response.responseCode = "OK" ->
            updateStateSetResults(st, pluginName,
                OrEmpty(response, "runs"),
                OrEmpty(response, "actions"),
                OrEmpty(response, "links"),
                patchset)

\* Mutant: every response is written to the LATEST context.
ApplyResponseToLatest(st, pluginName, patchset, response) ==
    CASE response.responseCode = "ERROR" ->
            updateStateSetError(st, pluginName,
                IF "errorMessage" \in DOMAIN response
                THEN response.errorMessage ELSE "-", LATEST)
      [] response.responseCode = "NOT_LOGGED_IN" ->
            updateStateSetNotLoggedIn(st, pluginName, response.loginCallback,
                                      LATEST)
      [] response.responseCode = "OK" ->
            updateStateSetResults(st, pluginName,
                OrEmpty(response, "runs"),
                OrEmpty(response, "actions"),
                OrEmpty(response, "links"),
                LATEST)

\* The subscriber of the pipeline: the switch on response.responseCode.
ApplyResponse(st, pluginName, patchset, response) ==
    CASE response.responseCode = "ERROR" ->
            updateStateSetError(st, pluginName,
                IF "errorMessage" \in DOMAIN response
                THEN response.errorMessage ELSE "-", patchset)
      [] response.responseCode = "NOT_LOGGED_IN" ->
            updateStateSetNotLoggedIn(st, pluginName, response.loginCallback,
                                      patchset)
      [] response.responseCode = "OK" ->
            updateStateSetResults(st, pluginName,
                OrEmpty(response, "runs"),
                OrEmpty(response, "actions"),
                OrEmpty(response, "links"),
                patchset)

\* The part of the model a trigger works on, with the snapshots published.
Sys(st, pp, ff, ck, pb) ==
    [state |-> st, pipes |-> pp, fetches |-> ff, clock |-> ck, pubs |-> pb]

\* The model as the next emission, number clock + 1, finds it.
CurrentSys == Sys(state, pipes, fetches, clock + 1, <<>>)

\* The pipeline is subscribed, combineLatest has emitted, and catchError has
\* not ended it.
Listening(pipe) == pipe.subscribed /\ pipe.armed /\ ~pipe.dead

\* Mutant: without the filter on document.visibilityState.
FilteredNever(e) == FALSE

\* filter(_ => document.visibilityState !== 'hidden') drops the value.
Filtered(e) == ~e.visible

\* The second source of combineLatest: latestPatchNum$ for LATEST,
\* checksSelectedPatchsetNumber$ for SELECTED.
PatchNumFor(st, e, patchset) ==
    IF patchset = LATEST THEN e.latestPatchNum ELSE st.patchsetNumberSelected

\* Mutant: without "if (!patchsetSha) return of(this.empty())".
ProjectWithoutShaCheck(e, patchNum) ==
    IF e.change = None \/ e.changeNum = None \/ patchNum = None
    THEN "empty"
    ELSE IF TheValue(e.change).revisions = None
    THEN "throw"
    ELSE "fetch"

\* What the function given to switchMap does with [[changeNum, patchNum],
\* change]: it returns of(this.empty()), it throws, or it calls fetchResults.
Project(e, patchNum) ==
    IF e.change = None \/ e.changeNum = None \/ patchNum = None
    THEN "empty"
    ELSE IF TheValue(e.change).revisions = None
    THEN "throw"
    ELSE IF getShaByPatchNum(TheValue(TheValue(e.change).revisions),
                             TheValue(patchNum)) = None
    THEN "empty"
    ELSE "fetch"

\* const data: ChangeData = {...} of the function given to switchMap, without
\* commitMessage; patchsetSha is what getShaByPatchNum returned.
ChangeData(changeNum, patchNum, change) ==
    [changeNumber |-> changeNum,
     patchsetNumber |-> patchNum,
     patchsetSha |->
         getShaByPatchNum(TheValue(change.revisions), patchNum),
     repo |-> change.project,
     changeInfo |-> change]

\* Mutant: exhaustMap for switchMap: a fetch in flight stays subscribed.
SwitchToKeepingOld(pipe, id) ==
    [pipe EXCEPT !.sub = IF pipe.sub # 0 THEN pipe.sub ELSE id, !.trig = id]

\* switchMap: the inner subscription moves to the observable of trigger id.
SwitchTo(pipe, id) == [pipe EXCEPT !.sub = id, !.trig = id]

\* Mutant: the pipeline goes on after catchError.
CrashedStaysAlive(pipe, id) == [pipe EXCEPT !.sub = 0, !.trig = id]

\* catchError: the pipeline, its switchMap included, has ended with the
\* trigger id.
Crashed(pipe, id) == [SwitchTo(pipe, id) EXCEPT !.sub = 0, !.dead = TRUE]

\* Mutant: the subscription of the inner fetch observable outlives the
\* pipeline's.
UnsubscribedKeepingFetch(pipe) == [pipe EXCEPT !.subscribed = FALSE]

\* s.unsubscribe() of a pipeline's subscription: the sources are released
\* and with them the observable switchMap is subscribed to.
Unsubscribed(pipe) == [pipe EXCEPT !.subscribed = FALSE, !.sub = 0]

\* One value of combineLatest going down the pipeline of key k = <<plugin,
\* patchset>>: takeWhile, filter, withLatestFrom(change$), switchMap,
\* catchError and the subscriber.
ProcessTrigger(sys, k, e) ==
    LET pipe == sys.pipes[k]
        id == sys.clock
        kind == Project(e, PatchNumFor(sys.state, e, k[2]))
    IN
    IF ~Listening(pipe) \/ Filtered(e) THEN sys
    ELSE IF kind = "empty" THEN
        \* of(this.empty()) emits and completes at once.
        Sys(ApplyResponse(sys.state, k[1], k[2], empty),
            [sys.pipes EXCEPT ![k] = [SwitchTo(pipe, id) EXCEPT !.sub = 0]],
            sys.fetches, sys.clock, Append(sys.pubs, k[2]))
    ELSE IF kind = "throw" THEN
        \* assertIsDefined(change.revisions) throws: catchError replaces the
        \* pipeline by of(createErrorResponse(...)), which ends it.
        Sys(ApplyResponse(sys.state, k[1], k[2],
                createErrorResponse(k[1], "assert")),
            [sys.pipes EXCEPT ![k] = Crashed(pipe, id)],
            sys.fetches, sys.clock, Append(sys.pubs, k[2]))
    ELSE
        \* fetchResults: updateStateSetLoading, then provider.fetch(data).
        Sys(updateStateSetLoading(sys.state, k[1], k[2]),
            [sys.pipes EXCEPT ![k] = SwitchTo(pipe, id)],
            sys.fetches \cup
                {[plugin |-> k[1], patchset |-> k[2], trig |-> id,
                  data |-> ChangeData(TheValue(e.changeNum),
                               TheValue(PatchNumFor(sys.state, e, k[2])),
                               TheValue(e.change))]},
            sys.clock, Append(sys.pubs, k[2]))

\* A source that all pipelines in keys subscribe to emits: the pipelines run
\* one after the other, in the order of their subscription.
RECURSIVE TriggerEach(_, _, _)
TriggerEach(sys, keys, e) ==
    IF keys = <<>> THEN sys
    ELSE TriggerEach(ProcessTrigger(sys, Head(keys), e), Tail(keys), e)

\* The pipelines in the order register() subscribed them.
RECURSIVE PipeOrder(_)
PipeOrder(names) ==
    IF names = <<>> THEN <<>>
    ELSE <<<<Head(names), LATEST>>, <<Head(names), SELECTED>>>>
            \o PipeOrder(Tail(names))

PipesOf(patchset) ==
    SelectSeq(PipeOrder(providers), LAMBDA k : k[2] = patchset)

\* The (plugin, context) pairs of the registered plugins that have runs in st
\* and none in next.
RunsCleared(st, next) ==
    SelectSeq(PipeOrder(providers),
              LAMBDA k : /\ getPluginState(st, k[2])[k[1]].runs # <<>>
                         /\ getPluginState(next, k[2])[k[1]].runs = <<>>)

\* The step an emission makes of the model, in a behaviour of at most limit
\* emissions.
BecomesWithin(limit, sys, e, op) ==
    /\ sys.clock <= limit
    /\ state' = sys.state
    /\ pipes' = sys.pipes
    /\ fetches' = sys.fetches
    /\ clock' = sys.clock
    /\ env' = e
    /\ lastOp' = Spread(op, [pubs |-> sys.pubs,
                          cleared |-> RunsCleared(state, sys.state)])
    /\ UNCHANGED <<providers, input, promises, effects, heap, finalized>>

Becomes(sys, e, op) == BecomesWithin(MaxEvents, sys, e, op)

\* timer(0, pollIntervalMs) of one pipeline ticks; its first tick is the
\* first value of combineLatest.
TimerTickWithin(limit, pluginName, patchset) ==
    LET k == <<pluginName, patchset>>
        armed == [CurrentSys EXCEPT !.pipes[k].armed = TRUE]
    IN
    /\ pipes[k].subscribed
    /\ ~pipes[k].dead
    /\ BecomesWithin(limit, ProcessTrigger(armed, k, env), env,
               [op |-> "timer", plugin |-> pluginName, patchset |-> patchset])

TimerTick(pluginName, patchset) ==
    TimerTickWithin(MaxEvents, pluginName, patchset)

\* A poll tick whose call of provider.fetch(data) throws: fetchResults has
\* set loading, the exception leaves switchMap, and catchError writes the
\* error response and ends the pipeline.
TimerTickFetchThrows(pluginName, patchset) ==
    LET k == <<pluginName, patchset>>
        sys == CurrentSys
        response == createErrorResponse(pluginName, "thrown")
    IN
    /\ Listening(pipes[k])
    /\ ~Filtered(env)
    /\ Project(env, PatchNumFor(state, env, patchset)) = "fetch"
    /\ Becomes(Sys(ApplyResponse(
                       updateStateSetLoading(state, pluginName, patchset),
                       pluginName, patchset, response),
                   [pipes EXCEPT ![k] = Crashed(pipes[k], sys.clock)],
                   fetches, sys.clock, <<patchset, patchset>>),
               env,
               [op |-> "timerFetchThrows", plugin |-> pluginName,
                patchset |-> patchset])

\* Mutant: without throttleTime(1000).
ReloadPipeUnthrottled(sys, k, e) ==
    IF ~sys.pipes[k].subscribed \/ sys.pipes[k].dead
    THEN sys
    ELSE ProcessTrigger([sys EXCEPT !.pipes[k].throttled = TRUE], k, e)

\* reloadSubjects[pluginName].next() reaching one pipeline: throttleTime(1000)
\* lets it pass when no value passed during the last 1000 ms.
ReloadPipe(sys, k, e) ==
    IF ~sys.pipes[k].subscribed \/ sys.pipes[k].dead \/ sys.pipes[k].throttled
    THEN sys
    ELSE ProcessTrigger([sys EXCEPT !.pipes[k].throttled = TRUE], k, e)

RECURSIVE ReloadEach(_, _, _)
ReloadEach(sys, keys, e) ==
    IF keys = <<>> THEN sys
    ELSE ReloadEach(ReloadPipe(sys, Head(keys), e), Tail(keys), e)

\* reload(pluginName)
Reload(pluginName) ==
    /\ Registered(pluginName)
    /\ Becomes(ReloadEach(CurrentSys, PipeOrder(<<pluginName>>), env), env,
               [op |-> "reload", plugin |-> pluginName])

\* 1000 ms have passed since a reload of the plugin passed throttleTime.  The
\* two pipelines of a plugin are subscribed in the same turn and see the same
\* reloads, so their windows open together and close together.
ThrottleElapsed(pluginName) ==
    /\ \E c \in ChecksPatchset : pipes[<<pluginName, c>>].throttled
    /\ pipes' = [k \in PipeKeys |->
                    IF k[1] = pluginName
                    THEN [pipes[k] EXCEPT !.throttled = FALSE]
                    ELSE pipes[k]]
    /\ lastOp' = [op |-> "throttleElapsed", pubs |-> <<>>]
    /\ UNCHANGED <<state, providers, fetches, env, clock, input, promises, effects, heap, finalized>>

\* changeNum$ emits a new change number.
ChangeNumEmit(changeNum) ==
    /\ changeNum # env.changeNum
    /\ Becomes(TriggerEach(CurrentSys, PipeOrder(providers),
                           [env EXCEPT !.changeNum = changeNum]),
               [env EXCEPT !.changeNum = changeNum],
               [op |-> "changeNum"])

\* change$ emits; withLatestFrom(change$) makes no trigger of it.
ChangeEmit(change) ==
    /\ change # env.change
    /\ Becomes(CurrentSys, [env EXCEPT !.change = change], [op |-> "change"])

\* Mutant: the number is stored as it is given.
setPatchsetAsGiven(st, num, latestPatchNum) == updateStateSetPatchset(st, num)

\* setPatchset(num) with this.latestPatchNum = latestPatchNum
setPatchset(st, num, latestPatchNum) ==
    updateStateSetPatchset(st, IF num = latestPatchNum THEN None ELSE num)

\* Mutant: the subscriber leaves the selection alone unless the router has a
\* numeric patchset.
SelectPatchsetKeepingSelection(st, e) ==
    IF e.latestPatchNum # None /\ e.routerPatchNum # None
    THEN setPatchset(st, e.routerPatchNum, e.latestPatchNum)
    ELSE st

\* The subscriber of combineLatest([routerPatchNum$, latestPatchNum$]) in the
\* constructor.
SelectPatchset(st, e) ==
    IF e.latestPatchNum = None THEN setPatchset(st, None, e.latestPatchNum)
    ELSE IF e.routerPatchNum # None
         THEN setPatchset(st, e.routerPatchNum, e.latestPatchNum)
         ELSE setPatchset(st, e.latestPatchNum, e.latestPatchNum)

\* The constructor's subscriber has stored the selection; when the selected
\* number changed, checksSelectedPatchsetNumber$ emits to the SELECTED
\* pipelines.
AfterSelectPatchset(sys, e) ==
    LET selected == [sys EXCEPT !.state = SelectPatchset(sys.state, e),
                                !.pubs = Append(sys.pubs, "patchset")]
    IN
    IF selected.state.patchsetNumberSelected = sys.state.patchsetNumberSelected
    THEN selected
    ELSE TriggerEach(selected, PipesOf(SELECTED), e)

\* setPatchset(num) called by the checks tab: the store publishes the
\* selection, and checksSelectedPatchsetNumber$ emits to the SELECTED pipelines
\* when the selected number changed.
SetPatchset(num) ==
    LET selected == [CurrentSys EXCEPT
                        !.state = setPatchset(state, num, env.latestPatchNum),
                        !.pubs = <<"patchset">>]
    IN
    Becomes(IF selected.state.patchsetNumberSelected
                  = state.patchsetNumberSelected
            THEN selected
            ELSE TriggerEach(selected, PipesOf(SELECTED), env),
            env, [op |-> "setPatchset", num |-> num])

\* latestPatchNum$ emits: first to the constructor's subscriber, then to the
\* LATEST pipelines.
LatestPatchNumEmit(patchNum) ==
    LET e == [env EXCEPT !.latestPatchNum = patchNum] IN
    /\ patchNum # env.latestPatchNum
    /\ Becomes(TriggerEach(AfterSelectPatchset(CurrentSys, e),
                           PipesOf(LATEST), e),
               e, [op |-> "latestPatchNum",
                   selected |-> state.patchsetNumberSelected])

\* routerPatchNum$ emits to the constructor's subscriber.
RouterPatchNumEmit(patchNum) ==
    LET e == [env EXCEPT !.routerPatchNum = patchNum] IN
    /\ patchNum # env.routerPatchNum
    /\ Becomes(AfterSelectPatchset(CurrentSys, e), e,
               [op |-> "routerPatchNum",
                selected |-> state.patchsetNumberSelected])

\* The document becomes hidden or visible; the visibilitychange listener
\* calls documentVisibilityChange$.next().
VisibilityChange ==
    LET e == [env EXCEPT !.visible = ~env.visible] IN
    Becomes(TriggerEach(CurrentSys, PipeOrder(providers), e), e,
            [op |-> "visibilitychange"])

\* Mutant: an ERROR response ends the pipeline like an exception does.
SettledErrorEndsPipeline(pipe, response) ==
    [pipe EXCEPT !.sub = 0, !.dead = response.responseCode = "ERROR"]

\* The observable of fetchResults has emitted its response and completed;
\* its catchError has turned a rejection into a response, so the pipeline
\* sees no error.
Settled(pipe, response) == [pipe EXCEPT !.sub = 0]

\* The promise of a fetch settles with a response (fetch resolved) or with
\* the response catchError makes of a rejection.  switchMap hands it to the
\* subscriber when it is still subscribed to this fetch.
FetchSettles(f, response, op) ==
    LET k == <<f.plugin, f.patchset>>
        applied == pipes[k].sub = f.trig /\ ~pipes[k].dead
    IN
    /\ f \in fetches
    /\ fetches' = fetches \ {f}
    /\ IF applied
       THEN /\ state' = ApplyResponse(state, f.plugin, f.patchset, response)
            /\ pipes' = [pipes EXCEPT ![k] = Settled(pipes[k], response)]
       ELSE UNCHANGED <<state, pipes>>
    /\ lastOp' = [op |-> op, plugin |-> f.plugin, patchset |-> f.patchset,
                  trig |-> f.trig, response |-> response, applied |-> applied,
                  before |-> getPluginState(state, f.patchset)[f.plugin],
                  pubs |-> IF applied THEN <<f.patchset>> ELSE <<>>]
    /\ UNCHANGED <<providers, env, clock, input, promises, effects, heap, finalized>>

FetchResolve(f, response) == FetchSettles(f, response, "fetchResolved")

FetchReject(f) ==
    FetchSettles(f, createErrorResponse(f.plugin, "rejected"), "fetchRejected")

\* The responses of the providers.
RunOf(checkName, attempt) ==
    [checkName |-> checkName, change |-> 1, patchset |-> 1,
     attempt |-> attempt]

Responses ==
    {[responseCode |-> "OK",
      runs |-> <<RunOf("build", Some(1))>>,
      actions |-> <<"rerun">>,
      links |-> <<"dashboard">>],
     [responseCode |-> "OK"],
     [responseCode |-> "ERROR", errorMessage |-> "quota exceeded"],
     [responseCode |-> "ERROR"],
     [responseCode |-> "NOT_LOGGED_IN", loginCallback |-> "login"]}

\* The values the signals can have when the model is constructed.
Envs ==
    [changeNum : {None, Some(1)},
     latestPatchNum : {None} \cup {Some(n) : n \in PatchNums},
     routerPatchNum : {None} \cup {Some(n) : n \in PatchNums},
     change : Changes,
     visible : BOOLEAN]

\* The model after its constructor has run: the subscriber of
\* combineLatest([routerPatchNum$, latestPatchNum$]) has stored the selection.
Init ==
    /\ env \in Envs
    /\ state = SelectPatchset(InitialChecksState, env)
    /\ providers = <<>>
    /\ pipes = [k \in PipeKeys |-> NoPipe]
    /\ fetches = {}
    /\ clock = 0
    /\ lastOp = [op |-> "constructor", pubs |-> <<"patchset">>]
    /\ input = <<>>
    /\ promises = {}
    /\ effects = <<>>
    /\ heap = InitialHeap
    /\ finalized = FALSE

\* The plugin that registers in Spec.
SpecPlugins == {"ci"}

Next ==
    \/ \E p \in SpecPlugins : Register(p)
    \/ \E p \in SpecPlugins, c \in ChecksPatchset : TimerTick(p, c)
    \/ \E p \in SpecPlugins, c \in ChecksPatchset : TimerTickFetchThrows(p, c)
    \/ \E p \in SpecPlugins : Reload(p)
    \/ \E p \in SpecPlugins : ThrottleElapsed(p)
    \/ \E n \in {None, Some(1)} : ChangeNumEmit(n)
    \/ \E ch \in Changes : ChangeEmit(ch)
    \/ \E n \in {None} \cup {Some(n) : n \in PatchNums} : LatestPatchNumEmit(n)
    \/ \E n \in {None} \cup {Some(n) : n \in PatchNums} : RouterPatchNumEmit(n)
    \/ \E n \in {None} \cup {Some(n) : n \in PatchNums} : SetPatchset(n)
    \/ VisibilityChange
    \/ \E f \in fetches, r \in Responses : FetchResolve(f, r)
    \/ \E f \in fetches : FetchReject(f)

Spec == Init /\ [][Next]_vars


FetchSettled == lastOp.op \in {"fetchResolved", "fetchRejected"}

\* The provider state the pipeline of the last step writes to.
SettledEntry == getPluginState(state, lastOp.patchset)[lastOp.plugin]

\* C1: the response of a fetch is written only when the fetch belongs to the
\* trigger its pipeline processed last; the response of a fetch that a later
\* trigger has overtaken changes nothing, whenever it arrives.
C1_Step ==
    lastOp'.op \in {"fetchResolved", "fetchRejected"} =>
        LET k == <<lastOp'.plugin, lastOp'.patchset>> IN
        /\ lastOp'.applied => lastOp'.trig = pipes[k].trig
        /\ lastOp'.trig # pipes[k].trig =>
              /\ state' = state
              /\ lastOp'.pubs = <<>>

C1_OnlyLatestTriggerApplied == [][C1_Step]_vars

\* The fetch of the first trigger settles after the fetch of the second
\* trigger was written: it is dropped.
C1_Witness ==
    /\ FetchSettled
    /\ ~lastOp.applied
    /\ lastOp.trig < pipes[<<lastOp.plugin, lastOp.patchset>>].trig
    /\ pipes[<<lastOp.plugin, lastOp.patchset>>].sub = 0
    /\ ~pipes[<<lastOp.plugin, lastOp.patchset>>].dead
    /\ ~SettledEntry.loading
    /\ SettledEntry.runs # <<>>

\* C7: an ERROR response with message m written for (plugin, context) leaves
\* loading = false, firstTimeLoad = false, errorMessage = m, loginCallback
\* undefined, runs = [] and actions = []; links and pluginName are kept.
C7_ErrorResponseApplied ==
    (/\ FetchSettled
     /\ lastOp.applied
     /\ lastOp.response.responseCode = "ERROR"
     /\ "errorMessage" \in DOMAIN lastOp.response)
    => /\ SettledEntry.loading = FALSE
       /\ SettledEntry.firstTimeLoad = FALSE
       /\ SettledEntry.errorMessage = Some(lastOp.response.errorMessage)
       /\ SettledEntry.loginCallback = None
       /\ SettledEntry.runs = <<>>
       /\ SettledEntry.actions = <<>>
       /\ SettledEntry.links = lastOp.before.links
       /\ SettledEntry.pluginName = lastOp.before.pluginName

\* An ERROR response written over results that came with a link.
C7_Witness ==
    /\ lastOp.op = "fetchResolved"
    /\ lastOp.applied
    /\ lastOp.response.responseCode = "ERROR"
    /\ lastOp.before.runs # <<>>
    /\ lastOp.before.links = <<"dashboard">>
    /\ SettledEntry.links = <<"dashboard">>
    /\ SettledEntry.errorMessage = Some("quota exceeded")

\* C8: an OK response written for (plugin, context) replaces runs, actions
\* and links by those of the response, each the empty list when the response
\* has none, clears errorMessage and loginCallback, and sets loading and
\* firstTimeLoad to false.
C8_OkResponseApplied ==
    (/\ FetchSettled
     /\ lastOp.applied
     /\ lastOp.response.responseCode = "OK")
    => LET given == IF "runs" \in DOMAIN lastOp.response
                    THEN lastOp.response.runs ELSE <<>>
       IN
       /\ SettledEntry.loading = FALSE
       /\ SettledEntry.firstTimeLoad = FALSE
       /\ SettledEntry.errorMessage = None
       /\ SettledEntry.loginCallback = None
       /\ Len(SettledEntry.runs) = Len(given)
       /\ \A i \in DOMAIN given :
             \A f \in DOMAIN given[i] : SettledEntry.runs[i][f] = given[i][f]
       /\ SettledEntry.actions =
             IF "actions" \in DOMAIN lastOp.response
             THEN lastOp.response.actions ELSE <<>>
       /\ SettledEntry.links =
             IF "links" \in DOMAIN lastOp.response
             THEN lastOp.response.links ELSE <<>>

\* An OK response without runs, actions and links written over results that
\* came with all three.
C8_Witness ==
    /\ lastOp.op = "fetchResolved"
    /\ lastOp.applied
    /\ lastOp.response = [responseCode |-> "OK"]
    /\ lastOp.before.runs # <<>>
    /\ lastOp.before.actions # <<>>
    /\ lastOp.before.links # <<>>
    /\ SettledEntry.runs = <<>>
    /\ SettledEntry.links = <<>>

----------------------------------------------------------------------------
(* SpecStore: the state store operations in any order *)

StoreRunLists ==
    {<<>>,
     <<[checkName |-> "build", change |-> 1, patchset |-> 1,
        attempt |-> Some(1), results |-> <<StoredResult(Some("e1"))>>]>>,
     <<[checkName |-> "build", change |-> 1, patchset |-> 1,
        attempt |-> Some(2),
        results |-> <<StoredResult(Some("e1")), AnonymousResult>>],
       [checkName |-> "build", change |-> 1, patchset |-> 1,
        attempt |-> None]>>}

StoreRegister == Register("ci")

StoreLoading == \E c \in ChecksPatchset : StoreSetLoading("ci", c)

StoreError ==
    \E c \in ChecksPatchset : StoreSetError("ci", "quota exceeded", c)

StoreNotLoggedIn ==
    \E c \in ChecksPatchset : StoreSetNotLoggedIn("ci", "login", c)

StoreResults ==
    \E c \in ChecksPatchset, runs \in StoreRunLists,
       links \in {<<>>, <<"dashboard">>} :
        StoreSetResults("ci", runs, <<>>, links, c)

StoreUpdateResult ==
    UpdateResult("ci", RunOf("build", Some(1)),
                 [externalId |-> Some("e1"), message |-> "new"])

\* The call of setResults made last is made again with the same arguments.
StoreResultsAgain ==
    /\ lastOp.op \in {"setResults", "setResultsAgain"}
    /\ state' = updateStateSetResults(state, lastOp.plugin, lastOp.runs,
                                      lastOp.actions, lastOp.links,
                                      lastOp.patchset)
    /\ lastOp' = Spread(lastOp,
                    [op |-> "setResultsAgain",
                     before |-> getPluginState(state, lastOp.patchset)
                                    [lastOp.plugin]])
    /\ UNCHANGED <<providers, pipes, fetches, env, clock, input, promises, effects,
                   heap, finalized>>

NextStore ==
    \/ StoreRegister
    \/ StoreLoading
    \/ StoreError
    \/ StoreNotLoggedIn
    \/ StoreResults
    \/ StoreUpdateResult
    \/ StoreResultsAgain

InitStore == Constructed /\ input = <<>>

SpecStore == InitStore /\ [][NextStore]_vars

\* C2: in every state, for every plugin and both contexts, errorMessage and
\* loginCallback are not both defined.
C2_MarkersExclusive ==
    \A c \in ChecksPatchset :
        \A p \in DOMAIN getPluginState(state, c) :
            ~(/\ IsDefined(Field(getPluginState(state, c)[p], "errorMessage"))
              /\ IsDefined(Field(getPluginState(state, c)[p], "loginCallback")))

\* setError on a provider that was NOT_LOGGED_IN.
C2_Witness ==
    /\ lastOp.op = "setError"
    /\ IsDefined(Field(lastOp.before, "loginCallback"))
    /\ IsDefined(getPluginState(state, lastOp.patchset)["ci"].errorMessage)

\* C26: setResults applied a second time with the same arguments leaves the
\* provider state equal in every field to the state after the first
\* application.
C26_SetResultsIdempotent ==
    lastOp.op = "setResultsAgain"
    => getPluginState(state, lastOp.patchset)[lastOp.plugin] = lastOp.before

\* The second application of a list of two attempts of one check, with
\* results and a link.
C26_Witness ==
    /\ lastOp.op = "setResultsAgain"
    /\ Len(lastOp.runs) = 2
    /\ lastOp.links # <<>>
    /\ Len(getPluginState(state, lastOp.patchset)["ci"].runs) = 2
    /\ Len(getPluginState(state, lastOp.patchset)["ci"].runs[1].results) = 2
    /\ getPluginState(state, lastOp.patchset)["ci"].runs[1].isLatestAttempt

----------------------------------------------------------------------------
(* setPatchset *)

\* C11: setPatchset(n) stores patchsetNumberSelected = undefined when n is
\* the latest known patchset number or n is undefined, and stores n otherwise.
C11_SetPatchsetStoresSelection ==
    lastOp.op = "setPatchset" =>
        state.patchsetNumberSelected =
            IF lastOp.num = None \/ lastOp.num = env.latestPatchNum
            THEN None
            ELSE lastOp.num

\* setPatchset(n) with n the latest known patchset number.
C11_Witness ==
    /\ lastOp.op = "setPatchset"
    /\ lastOp.num # None
    /\ lastOp.num = env.latestPatchNum
    /\ state.patchsetNumberSelected = None
    /\ env.routerPatchNum # None
    /\ env.routerPatchNum # env.latestPatchNum

----------------------------------------------------------------------------
(* Triggers of the pipelines *)

\* The provider state of the pipeline with key k, before and after the step.
EntryOf(k) == getPluginState(state, k[2])[k[1]]

EntryOfNext(k) == getPluginState(state', k[2])[k[1]]

\* The step is an emission of a source of the pipeline with key k, and
\* combineLatest of that pipeline passes it on: a poll tick, a change number,
\* a patchset number, a reload outside the throttle window, or a visibility
\* event.
Arrives(k) ==
    /\ pipes[k].subscribed
    /\ ~pipes[k].dead
    /\ \/ /\ lastOp'.op = "timer"
          /\ k = <<lastOp'.plugin, lastOp'.patchset>>
       \/ /\ lastOp'.op \in {"changeNum", "visibilitychange"}
          /\ pipes[k].armed
       \/ /\ lastOp'.op = "reload"
          /\ k[1] = lastOp'.plugin
          /\ pipes[k].armed
          /\ ~pipes[k].throttled
       \/ /\ lastOp'.op = "latestPatchNum"
          /\ k[2] = LATEST
          /\ pipes[k].armed
       \/ /\ lastOp'.op \in {"latestPatchNum", "routerPatchNum", "setPatchset"}
          /\ k[2] = SELECTED
          /\ pipes[k].armed
          /\ state'.patchsetNumberSelected # state.patchsetNumberSelected

\* provider.fetch() was called for the pipeline with key k in this step.
FetchCalled(k) ==
    \E f \in fetches' \ fetches : f.plugin = k[1] /\ f.patchset = k[2]

\* C12: a trigger that arrives at a pipeline while the document is hidden
\* causes no call of the provider's fetch and no change of the provider state.
C12_Step ==
    \A k \in PipeKeys :
        (Arrives(k) /\ ~env'.visible) =>
            /\ fetches' = fetches
            /\ EntryOfNext(k) = EntryOf(k)
            /\ pipes'[k].sub = pipes[k].sub
            /\ pipes'[k].trig = pipes[k].trig

C12_HiddenTriggerDoesNothing == [][C12_Step]_vars

\* A poll tick in a hidden document that would have fetched in a visible one.
C12_Witness ==
    /\ lastOp.op = "timer"
    /\ ~env.visible
    /\ pipes[<<lastOp.plugin, lastOp.patchset>>].armed
    /\ Project(env, PatchNumFor(state, env, lastOp.patchset)) = "fetch"
    /\ fetches = {}
    /\ lastOp.pubs = <<>>
    /\ ~getPluginState(state, lastOp.patchset)[lastOp.plugin].loading

\* The trigger that arrives in this step finds the change, the change number
\* or the patchset number missing, or no revision for the patchset number.
GapNext(k) ==
    LET patchNum == IF k[2] = LATEST THEN env'.latestPatchNum
                    ELSE state'.patchsetNumberSelected
    IN
    \/ env'.change = None
    \/ env'.changeNum = None
    \/ patchNum = None
    \/ \E ch \in env'.change, n \in patchNum :
          /\ ch.revisions # None
          /\ \A revs \in ch.revisions : n \notin DOMAIN revs

\* The provider state an OK response with empty runs leaves.
OkEmpty(entry) ==
    /\ entry.errorMessage = None
    /\ entry.loginCallback = None
    /\ entry.runs = <<>>
    /\ ~entry.loading
    /\ ~entry.firstTimeLoad

\* C13: a trigger processed while the change, the change number or the
\* patchset number is missing, or the revisions of the change have no
\* revision for the patchset number, calls no fetch and leaves the provider in
\* the state of an OK response with empty runs, neither ERROR nor
\* NOT_LOGGED_IN.
C13_Step ==
    \A k \in PipeKeys :
        (Arrives(k) /\ env'.visible /\ GapNext(k)) =>
            /\ ~FetchCalled(k)
            /\ OkEmpty(EntryOfNext(k))
            /\ ~pipes'[k].dead

C13_GapTriggerIsOkEmpty == [][C13_Step]_vars

\* A poll tick for a patchset number the revisions of the change do not have.
C13_Witness ==
    /\ lastOp.op = "timer"
    /\ env.visible
    /\ env.change # None
    /\ env.changeNum # None
    /\ PatchNumFor(state, env, lastOp.patchset) # None
    /\ Project(env, PatchNumFor(state, env, lastOp.patchset)) = "empty"
    /\ pipes[<<lastOp.plugin, lastOp.patchset>>].trig = clock
    /\ clock > 0
    /\ fetches = {}
    /\ OkEmpty(getPluginState(state, lastOp.patchset)[lastOp.plugin])

\* C14: a trigger that finds the identifiers or the revision missing leaves
\* the error state of the provider alone: an errorMessage or loginCallback set
\* before the trigger has the same value after it.
C14_Step ==
    \A k \in PipeKeys :
        (Arrives(k) /\ env'.visible /\ GapNext(k)) =>
            /\ IsDefined(Field(EntryOf(k), "errorMessage")) =>
                  EntryOfNext(k).errorMessage = EntryOf(k).errorMessage
            /\ IsDefined(Field(EntryOf(k), "loginCallback")) =>
                  EntryOfNext(k).loginCallback = EntryOf(k).loginCallback

C14_GapTriggerKeepsMarkers == [][C14_Step]_vars

----------------------------------------------------------------------------
(* Crash of a pipeline *)

\* The trigger that arrives in this step has all identifiers, but the change
\* has no revisions: assertIsDefined(change.revisions) throws.
CrashNext(k) ==
    LET patchNum == IF k[2] = LATEST THEN env'.latestPatchNum
                    ELSE state'.patchsetNumberSelected
    IN
    /\ env'.changeNum # None
    /\ patchNum # None
    /\ env'.change = Some(ChangeWithoutRevisions)

\* The pipeline with key k crashes in this step.
Crashes(k) ==
    \/ Arrives(k) /\ env'.visible /\ CrashNext(k)
    \/ lastOp'.op = "timerFetchThrows"
          /\ k = <<lastOp'.plugin, lastOp'.patchset>>

\* C15: when an exception escapes a pipeline, one ERROR write is made for its
\* (plugin, context) and the pipeline has ended; from then on no trigger of
\* any kind makes it fetch or write again.
C15_Step ==
    \A k \in PipeKeys :
        /\ Crashes(k) =>
              /\ pipes'[k].dead
              /\ IsDefined(EntryOfNext(k).errorMessage)
              /\ EntryOfNext(k).loginCallback = None
              /\ ~EntryOfNext(k).loading
              /\ ~FetchCalled(k)
              /\ Len(SelectSeq(lastOp'.pubs, LAMBDA c : c = k[2]))
                    = IF lastOp'.op = "timerFetchThrows" THEN 2 ELSE 1
        /\ pipes[k].dead =>
              /\ pipes'[k].dead
              /\ pipes'[k].sub = 0
              /\ pipes'[k].trig = pipes[k].trig
              /\ EntryOfNext(k) = EntryOf(k)
              /\ ~FetchCalled(k)

C15_CrashEndsPipeline == [][C15_Step]_vars

\* A change number arrives, in a visible document, after the pipeline of the
\* latest patchset has crashed.
C15_Witness ==
    /\ lastOp.op = "changeNum"
    /\ env.visible
    /\ pipes[<<"ci", LATEST>>].dead
    /\ pipes[<<"ci", LATEST>>].trig < clock
    /\ IsDefined(getPluginState(state, LATEST)["ci"].errorMessage)

----------------------------------------------------------------------------
(* Errors of a fetch *)

\* The trigger that arrives in this step has the change, the change number,
\* the patchset number and the revision of that number.
FetchableNext(k) ==
    LET patchNum == IF k[2] = LATEST THEN env'.latestPatchNum
                    ELSE state'.patchsetNumberSelected
    IN
    /\ env'.changeNum # None
    /\ \E ch \in env'.change, n \in patchNum :
          \E revs \in ch.revisions : n \in DOMAIN revs

\* C16: an ERROR response of a fetch, or a rejected fetch, puts the provider
\* into the ERROR state and leaves the pipeline alive: the next trigger for
\* that (plugin, context) calls the provider's fetch again.
C16_Step ==
    /\ (/\ lastOp'.op \in {"fetchResolved", "fetchRejected"}
        /\ lastOp'.applied
        /\ lastOp'.response.responseCode = "ERROR")
       => LET k == <<lastOp'.plugin, lastOp'.patchset>> IN
          /\ IsDefined(EntryOfNext(k).errorMessage)
          /\ pipes'[k].subscribed
          /\ pipes'[k].armed
          /\ ~pipes'[k].dead
    /\ \A k \in PipeKeys :
          (/\ Arrives(k)
           /\ env'.visible
           /\ FetchableNext(k)
           /\ IsDefined(Field(EntryOf(k), "errorMessage")))
          => /\ \E f \in fetches' \ fetches :
                    /\ f.plugin = k[1]
                    /\ f.patchset = k[2]
                    /\ f.trig = clock'
             /\ pipes'[k].sub = clock'
             /\ EntryOfNext(k).loading

C16_ErrorKeepsPipelineAlive == [][C16_Step]_vars

\* A poll tick fetches again for a provider that is in the ERROR state.
C16_Witness ==
    /\ lastOp.op = "timer"
    /\ \E f \in fetches :
          /\ f.plugin = lastOp.plugin
          /\ f.patchset = lastOp.patchset
          /\ f.trig = clock
    /\ IsDefined(Field(getPluginState(state, lastOp.patchset)[lastOp.plugin],
                       "errorMessage"))
    /\ getPluginState(state, lastOp.patchset)[lastOp.plugin].loading
    /\ ~pipes[<<lastOp.plugin, lastOp.patchset>>].dead

----------------------------------------------------------------------------
(* Throttling of reloads *)

\* C20: a reload(plugin) made while a pipeline of the plugin is inside the
\* 1000 ms window of a reload emission that passed throttleTime (the initial
\* emission at registration included) gives that pipeline no trigger and no
\* fetch, neither at once nor when the window closes.
C20_Step ==
    /\ lastOp'.op = "reload" =>
          \A k \in PipeKeys :
              (k[1] = lastOp'.plugin /\ pipes[k].throttled) =>
                  /\ pipes'[k] = pipes[k]
                  /\ EntryOfNext(k) = EntryOf(k)
                  /\ ~FetchCalled(k)
    /\ lastOp'.op = "throttleElapsed" =>
          /\ state' = state
          /\ fetches' = fetches
          /\ \A k \in PipeKeys :
                /\ pipes'[k].trig = pipes[k].trig
                /\ pipes'[k].sub = pipes[k].sub

C20_ThrottledReloadIsDropped == [][C20_Step]_vars

\* A reload inside the window, in a visible document where a reload outside
\* the window would have fetched: the pipeline has processed nothing.
C20_Witness ==
    /\ lastOp.op = "reload"
    /\ lastOp.pubs = <<>>
    /\ env.visible
    /\ fetches = {}
    /\ \E c \in ChecksPatchset :
          /\ pipes[<<"ci", c>>].armed
          /\ ~pipes[<<"ci", c>>].dead
          /\ pipes[<<"ci", c>>].throttled
          /\ pipes[<<"ci", c>>].trig < clock
          /\ Project(env, PatchNumFor(state, env, c)) = "fetch"

----------------------------------------------------------------------------
(* triggerAction *)

\* for (const run of providerState.runs) map.set(run.checkName, pluginName)
RECURSIVE MapSetRuns(_, _, _)
MapSetRuns(map, runs, pluginName) ==
    IF runs = <<>> THEN map
    ELSE MapSetRuns(PutEntry(map, Head(runs).checkName, pluginName),
                    Tail(runs), pluginName)

\* for (const [pluginName, providerState] of Object.entries(state)): the keys
\* of the plugin map come in the order register() added them.
RECURSIVE MapSetPlugins(_, _, _)
MapSetPlugins(map, pluginState, names) ==
    IF names = <<>> THEN map
    ELSE MapSetPlugins(
             MapSetRuns(map, Entry(pluginState, Head(names)).runs, Head(names)),
             pluginState, Tail(names))

\* Mutant: the map is made of the runs of the SELECTED context.
checkToPluginMapOfSelected(st, names) ==
    MapSetPlugins(<<>>, st.pluginStateSelected, names)

\* this.checkToPluginMap: the last value of checkToPluginMap$, which follows
\* every change of pluginStateLatest.
checkToPluginMap(st, names) == MapSetPlugins(<<>>, st.pluginStateLatest, names)

\* The reloads reloadAll() makes.
reloadForCheckAll(checkName, map, names) == names

\* reloadForCheck(checkName): the plugins whose reload subject gets a value.
reloadForCheck(checkName, map, names) ==
    IF checkName = None THEN <<>>
    ELSE IF TheValue(checkName) \in DOMAIN map
         THEN <<map[TheValue(checkName)]>>
         ELSE <<>>

CallbackCall == [kind |-> "callback"]

Alert(text) == [kind |-> "alert", text |-> text]

HideAlert == [kind |-> "hide-alert"]

\* Mutant: without "if (!this.changeNum) return".
triggerActionWithoutChangeNum(action, run, changeNum, latestPatchNum) ==
    LET patchSet == IF run # None /\ TheValue(run).patchset # None
                    THEN TheValue(run).patchset ELSE latestPatchNum
    IN
    IF action = None \/ TheValue(action).callback = None
    THEN [effects |-> <<>>, promise |-> FALSE]
    ELSE IF patchSet = None THEN [effects |-> <<>>, promise |-> FALSE]
    ELSE IF TheValue(TheValue(action).callback) # "promise"
    THEN [effects |-> <<CallbackCall>>, promise |-> FALSE]
    ELSE [effects |-> <<CallbackCall,
                        Alert("Triggering action '" \o TheValue(action).name
                              \o "' ...")>>,
          promise |-> TRUE]

\* triggerAction(action, run) up to the subscription to the promise: the
\* callback calls and alerts it makes, and whether it waits for a promise.
triggerAction(action, run, changeNum, latestPatchNum) ==
    LET patchSet == IF run # None /\ TheValue(run).patchset # None
                    THEN TheValue(run).patchset ELSE latestPatchNum
    IN
    IF action = None \/ TheValue(action).callback = None
    THEN [effects |-> <<>>, promise |-> FALSE]
    ELSE IF changeNum = None THEN [effects |-> <<>>, promise |-> FALSE]
    ELSE IF patchSet = None THEN [effects |-> <<>>, promise |-> FALSE]
    ELSE IF TheValue(TheValue(action).callback) # "promise"
    THEN [effects |-> <<CallbackCall>>, promise |-> FALSE]
    ELSE [effects |-> <<CallbackCall,
                        Alert("Triggering action '" \o TheValue(action).name
                              \o "' ...")>>,
          promise |-> TRUE]

\* The callbacks called so far.
CallbackCalls == Len(SelectSeq(effects, LAMBDA x : x.kind = "callback"))

TriggerAction(action, run) ==
    LET out == triggerAction(action, run, env.changeNum, env.latestPatchNum) IN
    /\ CallbackCalls < MaxActionCalls
    /\ effects' = effects \o out.effects
    /\ promises' = promises \cup
          (IF out.promise
           THEN {[id |-> CallbackCalls + 1, run |-> run, expired |-> FALSE,
                  listening |-> TRUE]}
           ELSE {})
    /\ lastOp' = [op |-> "triggerAction", action |-> action, run |-> run,
                  pubs |-> <<>>]
    /\ UNCHANGED <<state, providers, pipes, fetches, env, clock, input, heap,
                   finalized>>

\* Mutant: without takeUntil(timer(5000)).
TakeUntilTimerNever(promise) == [promise EXCEPT !.expired = TRUE]

\* timer(5000) fires: takeUntil ends the subscription to the promise.
TakeUntilTimer(promise) ==
    [promise EXCEPT !.expired = TRUE, !.listening = FALSE]

\* 5 seconds have passed since triggerAction and the promise is unresolved.
ActionTimeout(promise) ==
    /\ promise \in promises
    /\ ~promise.expired
    /\ promises' = (promises \ {promise}) \cup {TakeUntilTimer(promise)}
    /\ lastOp' = [op |-> "actionTimeout", pubs |-> <<>>]
    /\ UNCHANGED <<state, providers, pipes, fetches, env, clock, input, effects, heap, finalized>>

\* The event the subscriber fires for a result.
ResultEvent(result) ==
    IF IsDefined(Field(result, "errorMessage"))
          \/ IsDefined(Field(result, "message"))
    THEN Alert(IF IsDefined(Field(result, "message"))
               THEN TheValue(result.message)
               ELSE TheValue(result.errorMessage))
    ELSE HideAlert

\* The promise of an action callback resolves with a result.
ActionResolves(promise, result) ==
    LET checkName == IF promise.run = None THEN None
                     ELSE Some(TheValue(promise.run).checkName)
        reloads == IF promise.listening /\ Field(result, "shouldReload") = Some(TRUE)
                   THEN reloadForCheck(checkName,
                                       checkToPluginMap(state, providers),
                                       providers)
                   ELSE <<>>
        sys == ReloadEach(CurrentSys, PipeOrder(reloads), env)
    IN
    /\ promise \in promises
    /\ promises' = promises \ {promise}
    /\ effects' = IF promise.listening
                  THEN Append(effects, ResultEvent(result))
                  ELSE effects
    /\ IF reloads = <<>>
       THEN UNCHANGED <<state, pipes, fetches, clock>>
       ELSE /\ sys.clock <= MaxEvents
            /\ state' = sys.state
            /\ pipes' = sys.pipes
            /\ fetches' = sys.fetches
            /\ clock' = sys.clock
    /\ lastOp' = [op |-> "actionResolved", run |-> promise.run,
                  result |-> result, expired |-> promise.expired,
                  reloads |-> reloads,
                  pubs |-> IF reloads = <<>> THEN <<>> ELSE sys.pubs]
    /\ UNCHANGED <<providers, env, input, heap, finalized>>

\* The arguments of triggerAction.
ActionArgs ==
    {None,
     Some([name |-> "rerun", callback |-> None]),
     Some([name |-> "rerun", callback |-> Some("nothing")]),
     Some([name |-> "rerun", callback |-> Some("promise")])}

ActionRuns ==
    {None,
     Some([checkName |-> "build", patchset |-> None]),
     Some([checkName |-> "test", patchset |-> Some(1)])}

\* The results an action callback resolves with.
ActionResults ==
    {[errorMessage |-> Some("failed")],
     [shouldReload |-> Some(TRUE)],
     [message |-> Some("done"), shouldReload |-> Some(TRUE)]}

\* The signals when the model is constructed: the change is not loaded.
ActionEnvs ==
    [changeNum : {None, Some(1)},
     latestPatchNum : {None, Some(1)},
     routerPatchNum : {None},
     change : {None},
     visible : {TRUE}]

InitAction ==
    /\ env \in ActionEnvs
    /\ state = SelectPatchset(InitialChecksState, env)
    /\ providers = <<>>
    /\ pipes = [k \in PipeKeys |-> NoPipe]
    /\ fetches = {}
    /\ clock = 0
    /\ lastOp = [op |-> "constructor", pubs |-> <<"patchset">>]
    /\ input = <<>>
    /\ promises = {}
    /\ effects = <<>>
    /\ heap = InitialHeap
    /\ finalized = FALSE

\* The plugins register in the order "ci", "lint".
ActionRegister ==
    \/ Register("ci")
    \/ Registered("ci") /\ Register("lint")

ActionTimerTick == \E p \in Plugins : TimerTick(p, LATEST)

ActionThrottleElapsed == \E p \in Plugins : ThrottleElapsed(p)

\* A plugin reports the check "build" for the latest patchset.
ActionSetResults ==
    \E p \in Plugins :
        StoreSetResults(p, <<RunOf("build", Some(1))>>, <<>>, <<>>, LATEST)

ActionTrigger == \E a \in ActionArgs, r \in ActionRuns : TriggerAction(a, r)

ActionExpires == \E p \in promises : ActionTimeout(p)

ActionSettles == \E p \in promises, r \in ActionResults : ActionResolves(p, r)

NextAction ==
    \/ ActionRegister
    \/ ActionTimerTick
    \/ ActionThrottleElapsed
    \/ ActionSetResults
    \/ ActionTrigger
    \/ ActionExpires
    \/ ActionSettles

SpecAction == InitAction /\ [][NextAction]_vars

\* C17: triggerAction(action, run) calls no callback and fires no alert when
\* the action or its callback is absent, when no change number is known, or
\* when neither the run's patchset nor the latest patchset number is there.
C17_Step ==
    (/\ lastOp'.op = "triggerAction"
     /\ \/ lastOp'.action = None
        \/ \E a \in lastOp'.action : a.callback = None
        \/ env.changeNum = None
        \/ /\ env.latestPatchNum = None
           /\ \A r \in lastOp'.run : r.patchset = None)
    => /\ effects' = effects
       /\ promises' = promises

C17_NoCallbackWithoutPreconditions == [][C17_Step]_vars

\* triggerAction with a callback and a patchset while no change number is
\* known.
C17_Witness ==
    /\ lastOp.op = "triggerAction"
    /\ lastOp.action = Some([name |-> "rerun", callback |-> Some("promise")])
    /\ lastOp.run # None
    /\ env.changeNum = None
    /\ env.latestPatchNum # None
    /\ effects = <<>>
    /\ promises = {}

\* C18: when the promise of an action callback resolves more than 5 seconds
\* after triggerAction, no alert and no hide-alert event is fired and no
\* reload is made, whatever the result carries.
C18_Step ==
    (lastOp'.op = "actionResolved" /\ lastOp'.expired) =>
        /\ effects' = effects
        /\ state' = state
        /\ pipes' = pipes
        /\ fetches' = fetches
        /\ clock' = clock

C18_LateResultIsIgnored == [][C18_Step]_vars

\* A late result with a message and shouldReload for a check a plugin reports.
C18_Witness ==
    /\ lastOp.op = "actionResolved"
    /\ lastOp.expired
    /\ lastOp.result = [message |-> Some("done"), shouldReload |-> Some(TRUE)]
    /\ \E r \in lastOp.run :
          r.checkName \in DOMAIN checkToPluginMap(state, providers)
    /\ Len(effects) = 2
    /\ effects[2].kind = "alert"

\* The plugins that report a run of the check for the latest patchset, by
\* their place in the order of registration.
Reporting(checkName) ==
    {i \in DOMAIN providers :
        \E j \in DOMAIN state.pluginStateLatest[providers[i]].runs :
            state.pluginStateLatest[providers[i]].runs[j].checkName = checkName}

\* C19: a result with shouldReload = true that arrives within 5 seconds makes
\* a reload for the one plugin the check-to-plugin map has for the run's
\* checkName and for no other plugin.
C19_Step ==
    (/\ lastOp'.op = "actionResolved"
     /\ ~lastOp'.expired
     /\ Field(lastOp'.result, "shouldReload") = Some(TRUE))
    => LET target ==
               {providers[i] : i \in
                   {i \in DOMAIN providers :
                       \E r \in lastOp'.run :
                           /\ i \in Reporting(r.checkName)
                           /\ \A j \in Reporting(r.checkName) : j <= i}}
       IN
       /\ Cardinality(target) <= 1
       /\ {lastOp'.reloads[i] : i \in DOMAIN lastOp'.reloads} = target
       /\ Len(lastOp'.reloads) = Cardinality(target)
       /\ \A k \in PipeKeys :
             IF k[1] \in target
             THEN pipes[k].subscribed => pipes'[k].throttled
             ELSE /\ pipes'[k] = pipes[k]
                  /\ Entry(getPluginState(state', k[2]), k[1])
                        = Entry(getPluginState(state, k[2]), k[1])

C19_ReloadOnlyThePluginOfTheCheck == [][C19_Step]_vars

\* Both plugins report the check; the result reloads the plugin the map has,
\* "lint", whose pipeline processes the reload, and not "ci".
C19_Witness ==
    /\ lastOp.op = "actionResolved"
    /\ ~lastOp.expired
    /\ lastOp.reloads = <<"lint">>
    /\ Len(providers) = 2
    /\ state.pluginStateLatest["ci"].runs # <<>>
    /\ pipes[<<"lint", LATEST>>].trig = clock
    /\ clock > 0

----------------------------------------------------------------------------
(* SpecSnapshots: the state store operations called with any plugin name, *)
(* registered ("ci") or not ("lint"), the objects of every snapshot      *)
(* being followed                                                         *)

SnapshotRunLists ==
    {<<>>,
     <<[checkName |-> "build", change |-> 1, patchset |-> 1,
        attempt |-> Some(1), results |-> <<StoredResult(Some("e1"))>>]>>}

\* A call of a store operation that writes the entry of (pluginName, patchset)
\* and publishes: next is the value of the new snapshot.
Publishes(op, pluginName, patchset, next) ==
    /\ Registered("ci")
    /\ Len(heap.objs) < MaxHeap
    /\ state' = next
    /\ heap' = HeapSetEntry(heap, pluginName, patchset,
                            getPluginState(next, patchset)[pluginName])
    /\ lastOp' = [op |-> op, plugin |-> pluginName, patchset |-> patchset,
                  threw |-> FALSE, pubs |-> <<patchset>>]
    /\ UNCHANGED <<providers, pipes, fetches, env, clock, input, promises, effects,
                   finalized>>

\* A call that returns, or throws, without publishing.
PublishesNothing(op, pluginName, patchset, threw) ==
    /\ Registered("ci")
    /\ lastOp' = [op |-> op, plugin |-> pluginName, patchset |-> patchset,
                  threw |-> threw, pubs |-> <<>>]
    /\ UNCHANGED <<state, providers, pipes, fetches, env, clock, input, promises,
                   effects, heap, finalized>>

\* register("ci", provider, config): the two calls of updateStateSetProvider
\* (676-677).  "lint" never registers.
SnapshotsRegister ==
    LET entry == updateStateSetProvider(state, "ci", LATEST).pluginStateLatest["ci"]
    IN
    /\ ~Registered("ci")
    /\ providers' = Append(providers, "ci")
    /\ state' = updateStateSetProvider(
                    updateStateSetProvider(state, "ci", LATEST), "ci", SELECTED)
    /\ heap' = HeapSetEntry(HeapSetEntry(heap, "ci", LATEST, entry),
                            "ci", SELECTED, entry)
    /\ pipes' = [k \in PipeKeys |-> IF k[1] = "ci" THEN NewPipe ELSE pipes[k]]
    /\ lastOp' = [op |-> "register", plugin |-> "ci",
                  pubs |-> <<LATEST, SELECTED>>]
    /\ UNCHANGED <<fetches, env, clock, input, promises, effects, finalized>>

CallSetProvider ==
    \E p \in Plugins, c \in ChecksPatchset :
        Publishes("setProvider", p, c, updateStateSetProvider(state, p, c))

CallSetLoading ==
    \E p \in Plugins, c \in ChecksPatchset :
        Publishes("setLoading", p, c, updateStateSetLoading(state, p, c))

CallSetError ==
    \E p \in Plugins, c \in ChecksPatchset :
        Publishes("setError", p, c,
                  updateStateSetError(state, p, "quota exceeded", c))

CallSetNotLoggedIn ==
    \E p \in Plugins, c \in ChecksPatchset :
        Publishes("setNotLoggedIn", p, c,
                  updateStateSetNotLoggedIn(state, p, "login", c))

CallSetResults ==
    \E p \in Plugins, c \in ChecksPatchset, runs \in SnapshotRunLists :
        Publishes("setResults", p, c,
                  updateStateSetResults(state, p, runs, <<>>, <<>>, c))

\* updateStateUpdateResult(pluginName, run, result, patchset): line 559
\* throws before anything is written; without a matching result the call
\* returns at line 581.
CallUpdateResult ==
    \E p \in Plugins, c \in ChecksPatchset :
        LET run == RunOf("build", Some(1))
            result == [externalId |-> Some("e1"), message |-> "new"]
            out == updateStateUpdateResult(state, p, run, result, c)
        IN
        IF UpdateResultThrows(state, p, c)
        THEN PublishesNothing("updateResult", p, c, TRUE)
        ELSE IF out.published
        THEN Publishes("updateResult", p, c, out.state)
        ELSE PublishesNothing("updateResult", p, c, FALSE)

\* The numbers updateStateSetPatchset is called with: PatchSetNumber is a
\* number type, 0 is one of its values.
SelectableNums == {0} \cup PatchNums

CallSetPatchset ==
    \E num \in {None} \cup {Some(n) : n \in SelectableNums} :
        /\ Registered("ci")
        /\ Len(heap.objs) < MaxHeap
        /\ state' = updateStateSetPatchset(state, num)
        /\ heap' = HeapSetPatchset(heap, num)
        /\ lastOp' = [op |-> "setPatchset", num |-> num, threw |-> FALSE,
                      pubs |-> <<"patchset">>]
        /\ UNCHANGED <<providers, pipes, fetches, env, clock, input, promises,
                       effects, finalized>>

NextSnapshots ==
    \/ SnapshotsRegister
    \/ CallSetProvider
    \/ CallSetLoading
    \/ CallSetError
    \/ CallSetNotLoggedIn
    \/ CallSetResults
    \/ CallUpdateResult
    \/ CallSetPatchset

InitSnapshots == Constructed /\ input = <<>>

SpecSnapshots == InitSnapshots /\ [][NextSnapshots]_vars

\* The snapshot privateState$ holds is the value of state.
SnapshotIsState == state = SnapshotValue(heap, heap.root)

\* C21: no call of a state store operation throws, whatever plugin name it is
\* given: every call returns normally.
C21_StoreOperationsNeverThrow ==
    "threw" \in DOMAIN lastOp => ~lastOp.threw

\* The operations that write the entry of one plugin in one context.
EntryOps ==
    {"setProvider", "setLoading", "setError", "setNotLoggedIn", "setResults",
     "updateResult"}

OtherContext(patchset) == IF patchset = LATEST THEN SELECTED ELSE LATEST

\* The references a ChecksState object holds to the map of a context and, in
\* that map, to the entry of a plugin.
MapRef(h, stateRef, patchset) == h.objs[stateRef][MapKey(patchset)]

C22_Step ==
    LET P == lastOp'.plugin
        C == lastOp'.patchset
        before == getPluginState(state, C)
        after == getPluginState(state', C)
    IN
    (lastOp'.op \in EntryOps /\ lastOp'.pubs # <<>>)
    => \* the other plugins of the context
       /\ DOMAIN after = DOMAIN before \cup {P}
       /\ \A p \in DOMAIN before \ {P} :
             /\ after[p] = before[p]
             /\ heap'.objs[MapRef(heap', heap'.root, C)][p]
                   = heap.objs[MapRef(heap, heap.root, C)][p]
       \* the other context and the selected patchset number
       /\ getPluginState(state', OtherContext(C))
             = getPluginState(state, OtherContext(C))
       /\ MapRef(heap', heap'.root, OtherContext(C))
             = MapRef(heap, heap.root, OtherContext(C))
       /\ state'.patchsetNumberSelected = state.patchsetNumberSelected
       \* the snapshots published earlier: every object that existed is as
       \* it was, and the snapshot published last has the value it had
       /\ \A ref \in DOMAIN heap.objs : heap'.objs[ref] = heap.objs[ref]
       /\ SnapshotValue(heap', heap.root) = state
       /\ heap'.root # heap.root
       /\ state' = SnapshotValue(heap', heap'.root)

\* C22: a store mutation for (plugin P, context C) changes only the entry of
\* P in the map of C: the entries of the other plugins in C, the map of the
\* other context and patchsetNumberSelected are the same afterwards (in value
\* and as objects), and no object of a snapshot published earlier is altered.
C22_MutationChangesOnlyItsEntry == [][C22_Step]_vars

\* setResults for "lint" in LATEST when "ci" has an entry in LATEST, the
\* SELECTED map is not empty and a patchset number is selected.
C22_Witness ==
    /\ lastOp.op = "setResults"
    /\ lastOp.plugin = "lint"
    /\ lastOp.patchset = LATEST
    /\ state.pluginStateLatest["lint"].runs # <<>>
    /\ "ci" \in DOMAIN state.pluginStateLatest
    /\ "ci" \in DOMAIN state.pluginStateSelected
    /\ IsDefined(state.patchsetNumberSelected)
    /\ Len(heap.objs) > 12

\* C23: in every state checksSelected$ is pluginStateSelected when
\* patchsetNumberSelected is defined and pluginStateLatest when it is
\* undefined, for every value of the number.
C23_SelectedIffNumberDefined ==
    checksSelected(state) =
        IF IsDefined(state.patchsetNumberSelected)
        THEN state.pluginStateSelected
        ELSE state.pluginStateLatest

----------------------------------------------------------------------------
(* SpecPipelines: two plugins, each with its LATEST and its SELECTED      *)
(* pipeline, all four able to fetch; the triggers are the poll ticks,     *)
(* each of which reaches one pipeline                                     *)

\* Change 1 with the patchsets 1 and 2, patchset 1 selected in the router.
PipelinesEnv ==
    [changeNum |-> Some(1), latestPatchNum |-> Some(2),
     routerPatchNum |-> Some(1), change |-> Some(ChangeWith({1, 2})),
     visible |-> TRUE]

InitPipelines ==
    /\ env = PipelinesEnv
    /\ state = SelectPatchset(InitialChecksState, env)
    /\ providers = <<>>
    /\ pipes = [k \in PipeKeys |-> NoPipe]
    /\ fetches = {}
    /\ clock = 0
    /\ lastOp = [op |-> "constructor", pubs |-> <<"patchset">>]
    /\ input = <<>>
    /\ promises = {}
    /\ effects = <<>>
    /\ heap = InitialHeap
    /\ finalized = FALSE

PipelinesRegister ==
    \/ Register("ci")
    \/ Registered("ci") /\ Register("lint")

PipelinesTick ==
    \E p \in Plugins, c \in ChecksPatchset : TimerTickWithin(MaxTriggers, p, c)

PipelinesResponses ==
    {[responseCode |-> "OK", runs |-> <<RunOf("build", Some(1))>>],
     [responseCode |-> "OK", runs |-> <<RunOf("test", Some(1))>>],
     [responseCode |-> "ERROR", errorMessage |-> "quota exceeded"]}

PipelinesResolve ==
    \E f \in fetches, r \in PipelinesResponses : FetchResolve(f, r)

NextPipelines ==
    \/ PipelinesRegister
    \/ PipelinesTick
    \/ PipelinesResolve

SpecPipelines == InitPipelines /\ [][NextPipelines]_vars

\* The fetches in flight that the pipeline k issued.
FetchesOf(k) == {f \in fetches : f.plugin = k[1] /\ f.patchset = k[2]}

\* The pipeline j and its provider state are as before the step, and every
\* fetch it has in flight still is.
Untouched(j) ==
    /\ pipes'[j] = pipes[j]
    /\ FetchesOf(j) \subseteq fetches'
    /\ Entry(getPluginState(state', j[2]), j[1])
          = Entry(getPluginState(state, j[2]), j[1])

\* The provider state holds the response.
Holds(entry, response) ==
    /\ ~entry.loading
    /\ response.responseCode = "OK"
          => /\ Len(entry.runs) = Len(response.runs)
             /\ ~IsDefined(Field(entry, "errorMessage"))
    /\ response.responseCode = "ERROR"
          => /\ entry.runs = <<>>
             /\ Field(entry, "errorMessage") = Some(response.errorMessage)

C24_Step ==
    LET k == <<lastOp'.plugin, lastOp'.patchset>> IN
    /\ lastOp'.op = "timer"
          => \A j \in PipeKeys \ {k} : Untouched(j)
    /\ lastOp'.op = "fetchResolved"
          => /\ \A j \in PipeKeys \ {k} : Untouched(j)
             /\ pipes[k].trig = lastOp'.trig
                   => Holds(getPluginState(state', k[2])[k[1]],
                            lastOp'.response)

\* C24: a trigger in one (plugin, context) pipeline leaves every other
\* pipeline, its fetches in flight and its provider state alone; a fetch
\* that no later trigger of its own pipeline has overtaken is written to
\* the provider state of its own plugin and context when it resolves, and
\* to no other.
C24_TriggerDiscardsOnlyItsOwnFetch == [][C24_Step]_vars

\* The SELECTED fetch of "ci" resolves and is written after the LATEST
\* pipeline of "ci" was triggered again and left its first fetch behind.
C24_Witness ==
    /\ lastOp.op = "fetchResolved"
    /\ lastOp.plugin = "ci"
    /\ lastOp.patchset = SELECTED
    /\ lastOp.applied
    /\ lastOp.response.responseCode = "OK"
    /\ state.pluginStateSelected["ci"].runs # <<>>
    /\ state.pluginStateLatest["ci"].runs = <<>>
    /\ pipes[<<"ci", LATEST>>].trig > lastOp.trig
    /\ \E g \in fetches :
          /\ g.plugin = "ci"
          /\ g.patchset = LATEST
          /\ g.trig < lastOp.trig

----------------------------------------------------------------------------
(* SpecFinalize: a plugin registers and fetches, finalize() is called, and *)
(* the signals, reload requests and fetch promises go on afterwards        *)

\* finalize(): the listeners are removed, every subscription is released
\* and privateState$ is completed.
Finalize ==
    /\ ~finalized
    /\ finalized' = TRUE
    /\ pipes' = [k \in PipeKeys |-> Unsubscribed(pipes[k])]
    /\ lastOp' = [op |-> "finalize", pubs |-> <<>>]
    /\ UNCHANGED <<state, providers, fetches, env, clock, input, promises,
                   effects, heap>>

\* latestPatchNum$ or routerPatchNum$ emits after finalize(): the
\* constructor's subscriber is released, setPatchset is not called.
PatchNumEmitFinalized ==
    \E key \in {"latestPatchNum", "routerPatchNum"},
       n \in {None} \cup {Some(n) : n \in PatchNums} :
        /\ finalized
        /\ n # env[key]
        /\ clock < MaxEvents
        /\ clock' = clock + 1
        /\ env' = [env EXCEPT ![key] = n]
        /\ lastOp' = [op |-> key, pubs |-> <<>>]
        /\ UNCHANGED <<state, providers, pipes, fetches, input, promises,
                       effects, heap, finalized>>

\* setPatchset(num) called after finalize(): next() on the completed
\* privateState$ publishes nothing and keeps the value.
SetPatchsetFinalized ==
    \E n \in {None} \cup {Some(n) : n \in PatchNums} :
        /\ finalized
        /\ lastOp' = [op |-> "setPatchset", num |-> n, pubs |-> <<>>]
        /\ UNCHANGED <<state, providers, pipes, fetches, env, clock, input,
                       promises, effects, heap, finalized>>

FinalizeRegister == ~finalized /\ Register("ci")

FinalizeTimerTick ==
    \E c \in ChecksPatchset : TimerTick("ci", c)

FinalizeReload == Reload("ci")

FinalizeThrottleElapsed == ThrottleElapsed("ci")

FinalizeChangeNumEmit == \E n \in {None, Some(1)} : ChangeNumEmit(n)

FinalizePatchNumEmit ==
    /\ ~finalized
    /\ \E n \in {None} \cup {Some(n) : n \in PatchNums} : LatestPatchNumEmit(n)

FinalizeFetchResolve ==
    \E f \in fetches, r \in PipelinesResponses : FetchResolve(f, r)

NextFinalize ==
    \/ FinalizeRegister
    \/ FinalizeTimerTick
    \/ FinalizeReload
    \/ FinalizeThrottleElapsed
    \/ FinalizeChangeNumEmit
    \/ FinalizePatchNumEmit
    \/ VisibilityChange
    \/ FinalizeFetchResolve
    \/ Finalize
    \/ PatchNumEmitFinalized
    \/ SetPatchsetFinalized

SpecFinalize == InitPipelines /\ [][NextFinalize]_vars

C25_Step ==
    finalized
    => /\ state' = state
       /\ fetches' \subseteq fetches
       /\ lastOp'.pubs = <<>>

\* C25: after finalize(), no register following, no step calls the fetch of
\* a provider and none publishes a state snapshot: not a signal emitting, not
\* a reload request, not the resolution of a fetch that was in flight.
C25_NothingAfterFinalize == [][C25_Step]_vars

\* A fetch that was in flight when finalize() was called resolves afterwards,
\* after a signal has emitted: the provider state is still loading.
C25_Witness ==
    /\ finalized
    /\ lastOp.op = "fetchResolved"
    /\ lastOp.patchset = LATEST
    /\ ~lastOp.applied
    /\ state.pluginStateLatest["ci"].loading
    /\ env.changeNum = None
    /\ clock = 2

----------------------------------------------------------------------------
(* The provider state while a fetch is in flight (Spec) *)

\* The fields of a provider state other than loading.
DataFields ==
    {"pluginName", "firstTimeLoad", "errorMessage", "loginCallback", "runs",
     "actions", "links"}

SameData(a, b) == \A key \in DataFields : Field(a, key) = Field(b, key)

\* The fetch switchMap of pipeline k is subscribed to is in flight before
\* and after the step: it has not settled and no trigger has overtaken it.
StaysCurrent(k) ==
    \E f \in fetches \cap fetches' :
        /\ f.plugin = k[1]
        /\ f.patchset = k[2]
        /\ pipes[k].sub = f.trig
        /\ pipes'[k].sub = f.trig

C27_Step ==
    \A k \in PipeKeys :
        /\ FetchCalled(k)
              => /\ EntryOfNext(k).loading
                 /\ SameData(EntryOfNext(k), EntryOf(k))
        /\ StaysCurrent(k) => EntryOfNext(k) = EntryOf(k)

\* C27: the step that starts a fetch for (plugin, context) sets loading = true
\* and leaves runs, actions, links, errorMessage, loginCallback and
\* firstTimeLoad as they were, and no step changes the provider state while
\* that fetch is in flight and current.
C27_FetchStartSetsOnlyLoading == [][C27_Step]_vars

\* A second fetch has started on a provider state that holds the runs, the
\* action and the link of the first response.
C27_Witness ==
    \E k \in PipeKeys :
        /\ pipes[k].subscribed
        /\ pipes[k].sub = clock
        /\ clock = 2
        /\ \E f \in fetches : f.plugin = k[1] /\ f.patchset = k[2] /\ f.trig = clock
        /\ EntryOf(k).loading
        /\ ~EntryOf(k).firstTimeLoad
        /\ EntryOf(k).runs # <<>>
        /\ EntryOf(k).actions # <<>>
        /\ EntryOf(k).links # <<>>

----------------------------------------------------------------------------
(* checkToPluginMap$ (SpecPipelines) *)

\* The plugins, by their place in the order of registration, that have a run
\* with the check name in the context.
ReportingIn(st, patchset, checkName) ==
    {i \in DOMAIN providers :
        \E j \in DOMAIN getPluginState(st, patchset)[providers[i]].runs :
            getPluginState(st, patchset)[providers[i]].runs[j].checkName
                = checkName}

\* C29: checkToPluginMap has an entry for a check name if and only if a
\* plugin has a run with that check name in its LATEST runs, runs of the
\* SELECTED context giving none, and the entry is the plugin registered last
\* among the plugins that have such a run.
C29_MapOfLatestRunsLastWins ==
    LET map == checkToPluginMap(state, providers) IN
    \A checkName \in CheckNameSet :
        /\ checkName \in DOMAIN map
              <=> ReportingIn(state, LATEST, checkName) # {}
        /\ checkName \in DOMAIN map
              => map[checkName]
                    = providers[MaxOf(ReportingIn(state, LATEST, checkName))]

\* "ci" and "lint" both have the check "build" in their LATEST runs and the
\* map has "lint"; the check "test" is in SELECTED runs only and has no
\* entry.
C29_Witness ==
    /\ providers = <<"ci", "lint">>
    /\ ReportingIn(state, LATEST, "build") = {1, 2}
    /\ checkToPluginMap(state, providers)["build"] = "lint"
    /\ ReportingIn(state, SELECTED, "test") # {}
    /\ ReportingIn(state, LATEST, "test") = {}
    /\ "test" \notin DOMAIN checkToPluginMap(state, providers)

----------------------------------------------------------------------------
(* loading and the fetches in flight (Spec) *)

\* A fetch of pipeline k is in flight that belongs to the trigger the
\* pipeline processed last.
CurrentFetchInFlight(k) ==
    \E f \in fetches :
        /\ f.plugin = k[1]
        /\ f.patchset = k[2]
        /\ f.trig = pipes[k].trig

----------------------------------------------------------------------------
(* SpecLive: one plugin fetching, every promise of a fetch settling in the *)
(* end; the triggers of a behaviour are at most MaxEvents                  *)

LiveRegister == Register("ci")

LiveTimerTick == \E c \in ChecksPatchset : TimerTick("ci", c)

LiveFetchThrows == \E c \in ChecksPatchset : TimerTickFetchThrows("ci", c)

LiveReload == Reload("ci")

LiveThrottleElapsed == ThrottleElapsed("ci")

LiveChangeNumEmit == \E n \in {None, Some(1)} : ChangeNumEmit(n)

\* One response per branch of the subscriber (737-771).
LiveResponses ==
    {[responseCode |-> "OK", actions |-> <<"rerun">>],
     [responseCode |-> "ERROR", errorMessage |-> "quota exceeded"],
     [responseCode |-> "NOT_LOGGED_IN", loginCallback |-> "login"]}

\* The promise of a fetch in flight resolves or rejects.
LiveSettle ==
    \E f \in fetches :
        \/ \E r \in LiveResponses : FetchResolve(f, r)
        \/ FetchReject(f)

NextLive ==
    \/ LiveRegister
    \/ LiveTimerTick
    \/ LiveFetchThrows
    \/ LiveReload
    \/ LiveThrottleElapsed
    \/ LiveChangeNumEmit
    \/ VisibilityChange
    \/ LiveSettle

SpecLive == InitPipelines /\ [][NextLive]_vars /\ WF_vars(LiveSettle)

Loading(k) == Registered(k[1]) /\ EntryOf(k).loading

----------------------------------------------------------------------------
(* The benign gap clears the results *)

\* C32: a trigger that finds the identifiers or the revision missing is
\* written as setResults with empty lists: after it the provider has no runs,
\* no actions and no links, and loading and firstTimeLoad are false.
C32_Step ==
    \A k \in PipeKeys :
        (Arrives(k) /\ env'.visible /\ GapNext(k)) =>
            /\ EntryOfNext(k).runs = <<>>
            /\ EntryOfNext(k).actions = <<>>
            /\ EntryOfNext(k).links = <<>>
            /\ EntryOfNext(k).loading = FALSE
            /\ EntryOfNext(k).firstTimeLoad = FALSE

C32_GapTriggerClearsResults == [][C32_Step]_vars

\* changeNum$ has emitted undefined while the provider showed runs of an
\* earlier fetch: they are gone.
C32_Witness ==
    /\ lastOp.op = "changeNum"
    /\ env.visible
    /\ env.changeNum = None
    /\ lastOp.cleared = <<<<"ci", LATEST>>>>
    /\ EntryOf(<<"ci", LATEST>>).actions = <<>>
    /\ EntryOf(<<"ci", LATEST>>).links = <<>>

----------------------------------------------------------------------------
(* The selected patchset number is never the latest one *)

\* C33: whatever routerPatchNum$ and latestPatchNum$ emit and whatever
\* setPatchset is called with, patchsetNumberSelected is undefined or a number
\* different from the latest known patchset number.
C33_SelectedIsNeverLatest ==
    \/ state.patchsetNumberSelected = None
    \/ state.patchsetNumberSelected # env.latestPatchNum

\* latestPatchNum$ has emitted the number the router selects: the selection
\* is undefined.
C33_Witness ==
    /\ lastOp.op = "latestPatchNum"
    /\ env.latestPatchNum # None
    /\ env.routerPatchNum = env.latestPatchNum
    /\ state.patchsetNumberSelected = None

----------------------------------------------------------------------------
(* Emissions of the patchset numbers overwrite the selection *)

\* The last step was an emission of routerPatchNum$ or latestPatchNum$.
PatchNumEmitted == lastOp.op \in {"routerPatchNum", "latestPatchNum"}

\* C34: after every emission of routerPatchNum$ or latestPatchNum$ the
\* selection is the router patchset when that is a number different from the
\* latest patchset number, and undefined otherwise.
C34_EmissionSelectsRouterPatchset ==
    PatchNumEmitted =>
        state.patchsetNumberSelected =
            IF env.routerPatchNum # None
               /\ env.routerPatchNum # env.latestPatchNum
            THEN env.routerPatchNum
            ELSE None

\* C34 (amended): after every emission of routerPatchNum$ or latestPatchNum$
\* the selection is the router patchset when the latest patchset number is
\* defined and the router patchset is a number different from it, and
\* undefined otherwise.
C34_EmissionOverwritesSelection ==
    PatchNumEmitted =>
        state.patchsetNumberSelected =
            IF env.latestPatchNum # None
               /\ env.routerPatchNum # None
               /\ env.routerPatchNum # env.latestPatchNum
            THEN env.routerPatchNum
            ELSE None

\* latestPatchNum$ has emitted another number while the router has no numeric
\* patchset and a patchset was selected (lastOp.selected, by setPatchset): the
\* selection is undefined although it differs from the new latest number.
C34_Witness ==
    /\ lastOp.op = "latestPatchNum"
    /\ env.latestPatchNum # None
    /\ env.routerPatchNum = None
    /\ lastOp.selected # None
    /\ lastOp.selected # env.latestPatchNum
    /\ state.patchsetNumberSelected = None

----------------------------------------------------------------------------
(* Registering twice *)

\* C35: register for a plugin that is registered already changes nothing: the
\* provider states of both contexts, the registered providers, the reload
\* subjects and pipelines and the fetches in flight are as before.
C35_Step ==
    (/\ lastOp'.op \in {"register", "registerIgnored"}
     /\ Registered(lastOp'.plugin))
    => UNCHANGED <<state, providers, pipes, fetches, env, clock>>

C35_SecondRegisterChangesNothing == [][C35_Step]_vars

\* The plugin registers again while its first fetch is in flight and the
\* throttle window of its reload subject is closed.
C35_Witness ==
    /\ lastOp.op = "registerIgnored"
    /\ lastOp.plugin = "ci"
    /\ CurrentFetchInFlight(<<"ci", LATEST>>)
    /\ EntryOf(<<"ci", LATEST>>).loading
    /\ ~pipes[<<"ci", LATEST>>].throttled

----------------------------------------------------------------------------
(* firstTimeLoad *)

\* The subscriber of the pipeline with key k writes a response in this step:
\* the response of its current fetch, the empty response of a trigger that
\* cannot fetch, or the error response of catchError.
ResponseWritten(k) ==
    \/ /\ lastOp'.op \in {"fetchResolved", "fetchRejected"}
       /\ lastOp'.applied
       /\ k = <<lastOp'.plugin, lastOp'.patchset>>
    \/ Arrives(k) /\ env'.visible /\ GapNext(k)
    \/ Crashes(k)

\* C36: firstTimeLoad of a (plugin, context) is true when the plugin registers
\* and stays true until the first response is written for it; from then on it
\* is false and never true again.
C36_Step ==
    \A k \in PipeKeys :
        /\ (lastOp'.op = "register" /\ lastOp'.plugin = k[1]) =>
               EntryOfNext(k).firstTimeLoad
        /\ Registered(k[1]) =>
               EntryOfNext(k).firstTimeLoad =
                   (EntryOf(k).firstTimeLoad /\ ~ResponseWritten(k))

C36_FirstTimeLoadUntilFirstResponse == [][C36_Step]_vars

\* The second fetch of a pipeline is in flight: the provider is loading again
\* and firstTimeLoad is still false.
C36_Witness ==
    /\ lastOp.op \in {"timer", "reload"}
    /\ CurrentFetchInFlight(<<"ci", LATEST>>)
    /\ EntryOf(<<"ci", LATEST>>).loading
    /\ ~EntryOf(<<"ci", LATEST>>).firstTimeLoad
    /\ EntryOf(<<"ci", SELECTED>>).firstTimeLoad

----------------------------------------------------------------------------
(* shouldReload without a plugin to reload *)

\* C37: a result with shouldReload = true that arrives within 5 seconds makes
\* no reload when triggerAction was called without a run, or when no plugin
\* reports the run's checkName for the latest patchset.
C37_Step ==
    (/\ lastOp'.op = "actionResolved"
     /\ ~lastOp'.expired
     /\ Field(lastOp'.result, "shouldReload") = Some(TRUE)
     /\ \A r \in lastOp'.run : Reporting(r.checkName) = {})
    => /\ lastOp'.reloads = <<>>
       /\ UNCHANGED <<state, pipes, fetches, clock>>

C37_NoReloadWithoutMappedCheck == [][C37_Step]_vars

\* The result of an action triggered without a run asks for a reload while a
\* plugin with an open throttle window reports a check.
C37_Witness ==
    /\ lastOp.op = "actionResolved"
    /\ ~lastOp.expired
    /\ lastOp.result = [shouldReload |-> Some(TRUE)]
    /\ lastOp.run = None
    /\ Reporting("build") # {}
    /\ \E i \in Reporting("build") :
          /\ pipes[<<providers[i], LATEST>>].armed
          /\ ~pipes[<<providers[i], LATEST>>].throttled

----------------------------------------------------------------------------
(* SpecAnonymous: updateResult on runs whose results have no externalId or *)
(* an empty one                                                            *)

\* A result with the empty string as externalId.
EmptyIdResult == StoredResult(Some(""))

AnonResultLists ==
    {<<AnonymousResult>>,
     <<EmptyIdResult>>,
     <<AnonymousResult, StoredResult(Some("e1"))>>,
     <<EmptyIdResult, StoredResult(Some("e1"))>>}

AnonRuns ==
    [checkName : {"build"}, change : {1}, patchset : {1},
     attempt : {None, Some(1)}, results : AnonResultLists]

AnonRunLists == SeqsUpTo(AnonRuns, MaxUpdRuns)

AnonSelectedRunLists == {<<>>} \cup {<<run>> : run \in AnonRuns}

AnonUpdatedResults ==
    {[message |-> "new"],
     [externalId |-> Some(""), message |-> "new"],
     [externalId |-> Some("e1"), message |-> "new"]}

InitAnonymous ==
    /\ Constructed
    /\ input \in [latest : AnonRunLists, selected : AnonSelectedRunLists]

AnonUpdateResult ==
    \E run \in UpdatedRuns, result \in AnonUpdatedResults :
        /\ Registered("ci")
        /\ ~getPluginState(state, SELECTED)["ci"].firstTimeLoad
        /\ UpdateResult("ci", run, result)

NextAnonymous ==
    \/ UpdateRegister
    \/ UpdateSetResultsLatest
    \/ UpdateSetResultsSelected
    \/ AnonUpdateResult

SpecAnonymous == InitAnonymous /\ [][NextAnonymous]_vars

\* The result has an externalId that is not the empty string.
HasExternalId(result) ==
    /\ "externalId" \in DOMAIN result
    /\ result.externalId \notin {None, Some("")}

\* C38: updateResult leaves every stored result without externalId, or with
\* the empty string as externalId, as it is, and an update whose result has no
\* externalId or an empty one changes nothing and publishes no snapshot,
\* whatever run it names.
C38_Step ==
    lastOp'.op = "updateResult" =>
        /\ \A c \in ChecksPatchset :
              LET old == getPluginState(state, c)[lastOp'.plugin].runs
                  new == getPluginState(state', c)[lastOp'.plugin].runs
              IN
              /\ DOMAIN new = DOMAIN old
              /\ \A i \in DOMAIN old :
                    /\ DOMAIN new[i].results = DOMAIN old[i].results
                    /\ \A k \in DOMAIN old[i].results :
                          ~HasExternalId(old[i].results[k]) =>
                              new[i].results[k] = old[i].results[k]
        /\ ~HasExternalId(lastOp'.result) =>
              /\ state' = state
              /\ lastOp'.pubs = <<>>

C38_AnonymousResultIsNeverReplaced == [][C38_Step]_vars

\* An update without externalId for a run the LATEST context holds with a
\* result without externalId: nothing was published.
C38_Witness ==
    /\ lastOp.op = "updateResult"
    /\ "externalId" \notin DOMAIN lastOp.result
    /\ lastOp.pubs = <<>>
    /\ \E i \in DOMAIN getPluginState(state, LATEST)["ci"].runs :
          LET run == getPluginState(state, LATEST)["ci"].runs[i] IN
          /\ run.change = lastOp.run.change
          /\ run.patchset = lastOp.run.patchset
          /\ run.attempt = lastOp.run.attempt
          /\ run.checkName = lastOp.run.checkName
          /\ \E k \in DOMAIN run.results :
                /\ "externalId" \notin DOMAIN run.results[k]
                /\ run.results[k].message = "old"

----------------------------------------------------------------------------
(* SpecChangeData: the user goes from change 1 to change 2; changeNum$ and *)
(* change$ emit one after the other, in either order                       *)

\* Change 1 with its patchset 1 is loaded.
ChangeDataEnv ==
    [changeNum |-> Some(1), latestPatchNum |-> Some(1),
     routerPatchNum |-> None, change |-> Some(ChangeOf(1, {1})),
     visible |-> TRUE]

InitChangeData ==
    /\ env = ChangeDataEnv
    /\ state = SelectPatchset(InitialChecksState, env)
    /\ providers = <<>>
    /\ pipes = [k \in PipeKeys |-> NoPipe]
    /\ fetches = {}
    /\ clock = 0
    /\ lastOp = [op |-> "constructor", pubs |-> <<"patchset">>]
    /\ input = <<>>
    /\ promises = {}
    /\ effects = <<>>
    /\ heap = InitialHeap
    /\ finalized = FALSE

DataRegister == Register("ci")

DataTimerTick == \E c \in ChecksPatchset : TimerTick("ci", c)

DataReload == Reload("ci")

DataThrottleElapsed == ThrottleElapsed("ci")

DataChangeNumEmit == \E n \in {1, 2} : ChangeNumEmit(Some(n))

DataChangeEmit ==
    \E n \in {1, 2}, ps \in {{1}, {1, 2}} : ChangeEmit(Some(ChangeOf(n, ps)))

DataLatestPatchNumEmit == \E n \in PatchNums : LatestPatchNumEmit(Some(n))

DataSettle == \E f \in fetches, r \in LiveResponses : FetchResolve(f, r)

NextChangeData ==
    \/ DataRegister
    \/ DataTimerTick
    \/ DataReload
    \/ DataThrottleElapsed
    \/ DataChangeNumEmit
    \/ DataChangeEmit
    \/ DataLatestPatchNumEmit
    \/ DataSettle

SpecChangeData == InitChangeData /\ [][NextChangeData]_vars

\* C39: the ChangeData of every fetch has the number of its changeInfo as
\* changeNumber and the revision its changeInfo holds for its patchsetNumber
\* as patchsetSha.
C39_ChangeDataIsSelfConsistent ==
    \A f \in fetches :
        /\ f.data.changeNumber = f.data.changeInfo.number
        /\ \E revs \in f.data.changeInfo.revisions :
              /\ f.data.patchsetNumber \in DOMAIN revs
              /\ f.data.patchsetSha = Some(revs[f.data.patchsetNumber])

----------------------------------------------------------------------------
(* The hidden document *)

\* C40: the response of the current fetch of a pipeline is written also when
\* it arrives while the document is hidden; no fetch starts in a hidden
\* document, whatever is emitted; and when the document becomes visible each
\* pipeline gets one trigger, however many were dropped while it was hidden.
C40_Step ==
    /\ \A k \in PipeKeys :
          (/\ lastOp'.op \in {"fetchResolved", "fetchRejected"}
           /\ k = <<lastOp'.plugin, lastOp'.patchset>>
           /\ lastOp'.trig = pipes[k].trig
           /\ ~env.visible)
          => /\ lastOp'.applied
             /\ lastOp'.pubs = <<k[2]>>
             /\ ~EntryOfNext(k).loading
             /\ ~EntryOfNext(k).firstTimeLoad
    /\ ~env'.visible => fetches' \subseteq fetches
    /\ (lastOp'.op = "visibilitychange" /\ env'.visible) =>
          \A k \in PipeKeys :
              /\ Cardinality({f \in fetches' \ fetches :
                                 f.plugin = k[1] /\ f.patchset = k[2]}) <= 1
              /\ Listening(pipes[k]) => pipes'[k].trig = clock'

C40_HiddenDocumentDropsTriggers == [][C40_Step]_vars

\* The response of a fetch started in the visible document has been written
\* while the document is hidden.
C40_Witness ==
    /\ lastOp.op = "fetchResolved"
    /\ lastOp.applied
    /\ lastOp.response.responseCode = "OK"
    /\ "runs" \in DOMAIN lastOp.response
    /\ ~env.visible
    /\ lastOp.trig < clock
    /\ getPluginState(state, lastOp.patchset)[lastOp.plugin].runs # <<>>

====
